---------------------------- MODULE Spec2Model ----------------------------
(***************************************************************************)
(* A model of minijson2's pull tokenizer (Parser::next and the handlers    *)
(* it dispatches to) as a state machine over a byte buffer.                *)
(*                                                                         *)
(* Bytes are one-character strings, the buffer is a sequence of bytes and  *)
(* offsets are 0-based as in the source: At(i) is input_[i].               *)
(***************************************************************************)
EXTENDS Integers, Sequences, FiniteSets, TLC

VARIABLES
    input,      \* Parser::input_ / input_buffer_ : the document's bytes
    cursor,     \* Parser::cursor_
    stack,      \* Parser::expect_next_
    aborted,    \* TRUE once an assert() of the parser has failed (the process is gone)
    calls,      \* history: one record per returned next() call
    out         \* history: one record per returned call of another operation

vars == <<input, cursor, stack, aborted, calls, out>>

-----------------------------------------------------------------------------
(* Bounds of the model *)

\* longest document over the general alphabet (brackets, braces, strings, blanks)
MaxLen == 5
\* longest document over the array alphabet
MaxLenArr == 7
\* longest document over the object alphabet
MaxLenObj == 6
\* next() calls made after a call has returned Eof or Error
MaxRepeat == 1
\* longest document over the number alphabet
MaxLenNum == 4
\* calls of the decode operations made on one parser
MaxDecodes == 2
\* pieces (plain bytes and escapes) a buffer of escape_string is built from
MaxUnits == 3
\* longest document over the string alphabet
MaxLenStr == 5
\* longest document of get_context
MaxLenCtx == 5
\* pieces after the opening bracket of a container document
MaxInner == 5
\* longest document over the bareword alphabet
MaxLenWord == 4
\* bytes after the opening quote of a string document
MaxLenLit == 7
\* pieces after the opening bracket of an array of scalars
MaxMix == 3
\* longest document over the whitespace alphabet
MaxLenWs == 4
\* bytes after the opening bracket of an array read into a std::array
MaxLenFix == 5
\* the largest N of the std::array<uint64_t, N> read
MaxN == 2
\* pieces after the opening brace of an object read into a Scene
MaxMembers == 4
\* longest document handed to the DOM builder
MaxLenDom == 5

-----------------------------------------------------------------------------
(* Bytes *)

QUOTE == "\""
BSLASH == "\\"

AlphaGen == {"[", "]", "{", "}", QUOTE, BSLASH, "1", " "}
AlphaArr == {"[", "]", ",", "1", " "}
AlphaObj == {"{", "}", QUOTE, ":", " ", "+"}
AlphaNum == {"0", "1", "2", "3", "-", "+", ".", "e"}

\* all byte strings over alphabet A of length at most n
Strings(A, n) == UNION {[1..k -> A] : k \in 0..n}

npos == 0 - 1

Size == Len(input)
At(i) == input[i + 1]

Digits == {"0", "1", "2", "3", "4", "5", "6", "7", "8", "9"}

\* is_whitespace that takes the carriage return for whitespace too
is_whitespace_cr(ch) == ch = " " \/ ch = "\t" \/ ch = "\n" \/ ch = "\r"

is_whitespace(ch) == ch = " " \/ ch = "\t" \/ ch = "\n" \/ ch = "\t"

RECURSIVE skip_whitespace(_)
\* the cursor after Parser::skip_whitespace() started at c
skip_whitespace(c) ==
    IF c < Size /\ is_whitespace(At(c)) THEN skip_whitespace(c + 1) ELSE c

RECURSIVE find_first_not_of(_, _)
\* input_.find_first_not_of(chars, from): first offset >= from whose byte is not in chars
find_first_not_of(chars, from) ==
    IF from >= Size THEN npos
    ELSE IF At(from) \notin chars THEN from
    ELSE find_first_not_of(chars, from + 1)

value_chars ==
    Digits \cup
    {"a", "b", "c", "d", "e", "f", "g", "h", "i", "j", "l", "m", "n", "o", "p",
     "q", "r", "s", "t", "u", "v", "w", "x", "y", "z"} \cup
    {"A", "B", "C", "D", "E", "F", "G", "H", "I", "J", "K", "L", "M", "N", "O",
     "P", "Q", "R", "S", "T", "U", "V", "W", "X", "Y", "Z"} \cup
    {".", "+", "-"}

number_chars == Digits \cup {"e", "E", ".", "-", "+"}
int_chars == Digits \cup {"-"}
hex_chars == Digits \cup {"a", "b", "c", "d", "e", "f", "A", "B", "C", "D", "E", "F"}
escape_chars == {QUOTE, BSLASH, "/", "b", "f", "n", "r", "t"}

-----------------------------------------------------------------------------
(* Tokens *)

Types == <<"Null", "Bool", "UInt", "Int", "Float", "String", "Array", "Object",
           "EndArray", "EndObject", "Eof", "Error">>

\* static_cast<uint8_t>(type): the enumerator's position in Token::Type
TypeOrd ==
    [Null |-> 0, Bool |-> 1, UInt |-> 2, Int |-> 3, Float |-> 4, String |-> 5,
     Array |-> 6, Object |-> 7, EndArray |-> 8, EndObject |-> 9, Eof |-> 10,
     Error |-> 11]

\* Token(Type, string_view): a view of len bytes starting at offset pos
Token(ty, pos, len) == [type |-> ty, pos |-> pos, len |-> len, msg |-> ""]

\* Token(cursor, message): pos is error_location()
ErrorToken(c, message) == [type |-> "Error", pos |-> c, len |-> 0, msg |-> message]

\* operator bool comparing with <= instead of <
operator_bool_le(tok) == TypeOrd[tok.type] <= TypeOrd["EndArray"]

operator_bool(tok) == TypeOrd[tok.type] < TypeOrd["EndArray"]

-----------------------------------------------------------------------------
(* The handlers. Each returns what one call leaves behind:                 *)
(*   tok, the cursor, the expectation stack, and abort = TRUE when an      *)
(*   assert() failed in a build that keeps assertions.                     *)
(* nd is TRUE for a build with NDEBUG (assert() compiled out).             *)

Ret(tok, c, stk) == [tok |-> tok, cursor |-> c, stack |-> stk, abort |-> FALSE]
Abort(c, stk) == [tok |-> ErrorToken(c, "assert"), cursor |-> c, stack |-> stk, abort |-> TRUE]

\* error_token without the push of Error: the error would not be sticky
error_token_nopush(message, c, stk) == Ret(ErrorToken(c, message), c, stk)

\* error_token that steps over the offending byte
error_token_skip(message, c, stk) ==
    Ret(ErrorToken(c, message), c + 1, Append(stk, "Error"))

\* error_token that leaves the cursor one byte before the error
error_token_back(message, c, stk) ==
    Ret(ErrorToken(c, message), c - 1, Append(stk, "Error"))

\* error_token that records the error twice
error_token_twice(message, c, stk) ==
    Ret(ErrorToken(c, message), c, Append(Append(stk, "Error"), "Error"))

error_token(message, c, stk) == Ret(ErrorToken(c, message), c, Append(stk, "Error"))

RECURSIVE find_end(_)
\* the loop of string_token that looks for the closing quote, from offset i
find_end(i) ==
    IF i >= Size THEN npos
    ELSE IF At(i) = QUOTE /\ At(i - 1) # BSLASH THEN i
    ELSE find_end(i + 1)

\* offset in the 4 bytes at c of the first byte that is no hex digit, or npos
non_hex(c) ==
    LET bad == {k \in 0..3 : At(c + k) \notin hex_chars}
    IN  IF bad = {} THEN npos ELSE CHOOSE k \in bad : \A j \in bad : k <= j

RECURSIVE validate_anyescape(_, _, _, _, _)
\* the while loop of string_token when it lets every escape character pass
validate_anyescape(c, start, end, stk, nd) ==
    IF c >= end
    THEN Ret(Token("String", start, end - start), c + 1, stk)
    ELSE IF At(c) = BSLASH
    THEN IF c + 1 >= Size
         THEN error_token("Incomplete escape sequence", c, stk)
         ELSE validate_anyescape(c + 2, start, end, stk, nd)
    ELSE validate_anyescape(c + 1, start, end, stk, nd)

RECURSIVE validate(_, _, _, _, _)
\* the while loop of string_token with cursor_ = c
validate(c, start, end, stk, nd) ==
    IF c >= end
    THEN Ret(Token("String", start, end - start), c + 1, stk)
    ELSE IF At(c) = BSLASH
    THEN IF c + 1 >= Size
         THEN error_token("Incomplete escape sequence", c, stk)
         ELSE IF At(c + 1) = "u"
         THEN IF c + 2 + 4 >= Size
              THEN error_token("Incomplete unicode escape sequence", c + 2, stk)
              ELSE IF non_hex(c + 2) # npos
              THEN error_token("Incomplete unicode escape sequence",
                               c + 2 + non_hex(c + 2), stk)
              ELSE validate(c + 2 + 4, start, end, stk, nd)
         ELSE IF At(c + 1) \in escape_chars
         THEN validate(c + 2, start, end, stk, nd)
         ELSE error_token("Invalid escape sequence", c + 1, stk)
    ELSE IF At(c) = QUOTE /\ ~nd
    THEN Abort(c, stk)
    ELSE validate(c + 1, start, end, stk, nd)

string_token(c0, stk, nd) ==
    LET c == skip_whitespace(c0)
    IN  IF ~nd /\ ~(c < Size /\ At(c) = QUOTE)
        THEN Abort(c, stk)
        ELSE LET start == c + 1
                 end == find_end(start)
             IN  IF end = npos
                 THEN error_token("Unterminated string", start - 1, stk)
                 ELSE validate(start, start, end, stk, nd)

number_token(c, len, stk) ==
    LET value == SubSeq(input, c + 1, c + len)
    IN  IF \E k \in 1..len : value[k] \notin int_chars
        THEN Ret(Token("Float", c, len), c + len, stk)
        ELSE IF value[1] = "-"
        THEN Ret(Token("Int", c, len), c + len, stk)
        ELSE Ret(Token("UInt", c, len), c + len, stk)

on_value(c0, stk, nd) ==
    LET c == skip_whitespace(c0)
    IN  IF c >= Size THEN error_token("Expected value", c, stk)
        ELSE IF At(c) = QUOTE THEN string_token(c, stk, nd)
        ELSE IF At(c) = "{"
        THEN Ret(Token("Object", c, 1), c + 1, Append(stk, "ObjectKey"))
        ELSE IF At(c) = "["
        THEN Ret(Token("Array", c, 1), c + 1, Append(stk, "ArrayValue"))
        ELSE LET fe == find_first_not_of(value_chars, c)
                 value_end == IF fe = npos THEN Size ELSE fe
                 len == value_end - c
                 value == SubSeq(input, c + 1, value_end)
                 bad == {k \in 0..(len - 1) : value[k + 1] \notin number_chars}
                 non_num_pos == CHOOSE k \in bad : \A j \in bad : k <= j
             IN  IF len = 0 THEN error_token("Value must not be empty", c, stk)
                 ELSE IF value = <<"n", "u", "l", "l">>
                 THEN Ret(Token("Null", c, len), c + len, stk)
                 ELSE IF value = <<"t", "r", "u", "e">>
                         \/ value = <<"f", "a", "l", "s", "e">>
                 THEN Ret(Token("Bool", c, len), c + len, stk)
                 ELSE IF bad # {}
                 THEN error_token(
                          "Expected string, array, object, null, boolean or number",
                          c + non_num_pos, stk)
                 ELSE number_token(c, len, stk)

on_object_key(c0, stk, nd) ==
    LET c == skip_whitespace(c0)
    IN  IF c >= Size THEN error_token("Unterminated object", c, stk)
        ELSE IF At(c) = "}" THEN Ret(Token("EndObject", c, 1), c + 1, stk)
        ELSE string_token(IF At(c) = "," THEN c + 1 ELSE c,
                          Append(stk, "ObjectValue"), nd)

\* on_object_value that does not expect a further key
on_object_value_nokey(c0, stk, nd) ==
    LET c == skip_whitespace(c0)
    IN  IF c >= Size THEN error_token("Unterminated object", c, stk)
        ELSE IF At(c) # ":" THEN error_token("Expected ':' after object key", c, stk)
        ELSE on_value(c + 1, stk, nd)

on_object_value(c0, stk, nd) ==
    LET c == skip_whitespace(c0)
    IN  IF c >= Size THEN error_token("Unterminated object", c, stk)
        ELSE IF At(c) # ":" THEN error_token("Expected ':' after object key", c, stk)
        ELSE on_value(c + 1, Append(stk, "ObjectKey"), nd)

\* on_array_value that forgets to expect a further element
on_array_value_norepush(c0, stk, nd) ==
    LET c == skip_whitespace(c0)
    IN  IF c >= Size THEN error_token("Unterminated array", c, stk)
        ELSE IF At(c) = "]" THEN Ret(Token("EndArray", c, 1), c + 1, stk)
        ELSE on_value(IF At(c) = "," THEN c + 1 ELSE c, stk, nd)

\* on_array_value that does not step over the comma
on_array_value_nocomma(c0, stk, nd) ==
    LET c == skip_whitespace(c0)
    IN  IF c >= Size THEN error_token("Unterminated array", c, stk)
        ELSE IF At(c) = "]" THEN Ret(Token("EndArray", c, 1), c + 1, stk)
        ELSE on_value(c, Append(stk, "ArrayValue"), nd)

\* on_array_value that insists on a comma before the element
on_array_value_needcomma(c0, stk, nd) ==
    LET c == skip_whitespace(c0)
    IN  IF c >= Size THEN error_token("Unterminated array", c, stk)
        ELSE IF At(c) = "]" THEN Ret(Token("EndArray", c, 1), c + 1, stk)
        ELSE IF At(c) # "," THEN error_token("Expected ','", c, stk)
        ELSE on_value(c + 1, Append(stk, "ArrayValue"), nd)

\* on_array_value that returns EndArray without stepping over the bracket
on_array_value_stay(c0, stk, nd) ==
    LET c == skip_whitespace(c0)
    IN  IF c >= Size THEN error_token("Unterminated array", c, stk)
        ELSE IF At(c) = "]" THEN Ret(Token("EndArray", c, 1), c, stk)
        ELSE on_value(IF At(c) = "," THEN c + 1 ELSE c,
                      Append(stk, "ArrayValue"), nd)

\* on_array_value that steps over every comma before the element
on_array_value_commas(c0, stk, nd) ==
    LET c == skip_whitespace(c0)
        after == find_first_not_of({","}, c)
    IN  IF c >= Size THEN error_token("Unterminated array", c, stk)
        ELSE IF At(c) = "]" THEN Ret(Token("EndArray", c, 1), c + 1, stk)
        ELSE on_value(IF after = npos THEN Size ELSE after,
                      Append(stk, "ArrayValue"), nd)

on_array_value(c0, stk, nd) ==
    LET c == skip_whitespace(c0)
    IN  IF c >= Size THEN error_token("Unterminated array", c, stk)
        ELSE IF At(c) = "]" THEN Ret(Token("EndArray", c, 1), c + 1, stk)
        ELSE on_value(IF At(c) = "," THEN c + 1 ELSE c,
                      Append(stk, "ArrayValue"), nd)

\* an Eof branch that consumes the rest of the input
eof_result_consume(c) == Ret(Token("Eof", c, Size - c), Size, <<>>)

\* an Eof branch that returns an empty view at the cursor
eof_result_empty(c) == Ret(Token("Eof", c, 0), c, <<>>)

\* the branch of Parser::next() taken when expect_next_ is empty
eof_result(c) == Ret(Token("Eof", c, Size - c), c, <<>>)

\* what Parser::next() returns and leaves behind in the current state
next_result(nd) ==
    IF stack = <<>>
    THEN eof_result(cursor)
    ELSE LET expect == stack[Len(stack)]
             stk == SubSeq(stack, 1, Len(stack) - 1)
         IN  CASE expect = "Error" -> error_token("Abort after previous error", cursor, stk)
               [] expect = "Value" -> on_value(cursor, stk, nd)
               [] expect = "ObjectKey" -> on_object_key(cursor, stk, nd)
               [] expect = "ObjectValue" -> on_object_value(cursor, stk, nd)
               [] expect = "ArrayValue" -> on_array_value(cursor, stk, nd)

-----------------------------------------------------------------------------
(* The state machine *)

IsTerminal(tok) == tok.type \in {"Eof", "Error"}

\* number of calls at the end of the history that returned Eof or Error
TerminalRun ==
    Cardinality({i \in 1..Len(calls) :
                    \A j \in i..Len(calls) : IsTerminal(calls[j].tok)})

\* Parser::Parser
InitParser ==
    /\ cursor = 0
    /\ stack = <<"Value">>
    /\ aborted = FALSE
    /\ calls = <<>>
    /\ out = <<>>

Init ==
    /\ input \in Strings(AlphaGen, MaxLen)
    /\ InitParser

\* one call of Parser::next()
next ==
    /\ ~aborted
    /\ TerminalRun <= MaxRepeat
    /\ \E nd \in BOOLEAN :
          LET r == next_result(nd)
          IN  IF r.abort
              THEN /\ aborted' = TRUE
                   /\ UNCHANGED <<input, cursor, stack, calls, out>>
              ELSE /\ cursor' = r.cursor
                   /\ stack' = r.stack
                   /\ calls' = Append(calls,
                         [tok |-> r.tok,
                          expect |-> IF stack = <<>> THEN "none" ELSE stack[Len(stack)],
                          before |-> cursor,
                          depth_before |-> Len(stack),
                          cursor |-> r.cursor,
                          depth |-> Len(r.stack)])
                   /\ UNCHANGED <<input, aborted, out>>

Next == next

Spec == Init /\ [][Next]_vars

\* documents made of brackets, commas, blanks and a digit, up to MaxLenArr bytes
InitArr ==
    /\ input \in Strings(AlphaArr, MaxLenArr)
    /\ InitParser

SpecArr == InitArr /\ [][Next]_vars

\* documents made of braces, quotes, colons, blanks and '+' up to MaxLenObj bytes
InitObj ==
    /\ input \in Strings(AlphaObj, MaxLenObj)
    /\ InitParser

SpecObj == InitObj /\ [][Next]_vars

-----------------------------------------------------------------------------
(* Bytes by value. A byte is a string: the character itself for printable  *)
(* ASCII, tab, line feed, form feed and carriage return, and "x" followed  *)
(* by two hex digits for every other value.                                *)

HexDigit == <<"0", "1", "2", "3", "4", "5", "6", "7",
              "8", "9", "A", "B", "C", "D", "E", "F">>
HexLower == <<"0", "1", "2", "3", "4", "5", "6", "7",
              "8", "9", "a", "b", "c", "d", "e", "f">>

\* the characters 0x20 .. 0x7E (0x60 by its hex name)
Printable ==
    <<" ", "!", "\"", "#", "$", "%", "&", "'", "(", ")", "*", "+",
      ",", "-", ".", "/", "0", "1", "2", "3", "4", "5", "6", "7",
      "8", "9", ":", ";", "<", "=", ">", "?", "@", "A", "B", "C",
      "D", "E", "F", "G", "H", "I", "J", "K", "L", "M", "N", "O",
      "P", "Q", "R", "S", "T", "U", "V", "W", "X", "Y", "Z", "[",
      "\\", "]", "^", "_", "x60", "a", "b", "c", "d", "e", "f", "g",
      "h", "i", "j", "k", "l", "m", "n", "o", "p", "q", "r", "s",
      "t", "u", "v", "w", "x", "y", "z", "{", "|", "}", "~">>

\* static_cast<char>(n)
Chr(n) ==
    IF n >= 32 /\ n <= 126 THEN Printable[n - 31]
    ELSE IF n = 9 THEN "\t"
    ELSE IF n = 10 THEN "\n"
    ELSE IF n = 12 THEN "\f"
    ELSE IF n = 13 THEN "\r"
    ELSE "x" \o HexDigit[(n \div 16) + 1] \o HexDigit[(n % 16) + 1]

\* '\0'
NUL == Chr(0)

\* the value of a hex digit, as std::from_chars reads it in base 16
HexVal(c) == CHOOSE v \in 0..15 : HexDigit[v + 1] = c \/ HexLower[v + 1] = c

-----------------------------------------------------------------------------
(* escape_string(char*, size_t) on the range [off, off + len) of a buffer  *)
(* buf that is the contents of a std::string.                              *)

\* encode_utf8 with the two-byte form for every code point above 0x7F
encode_utf8_two(cp) ==
    IF cp <= 127 THEN <<Chr(cp)>>
    ELSE <<Chr(192 + ((cp \div 64) % 32)), Chr(128 + (cp % 64))>>

\* encode_utf8: the bytes written to dst (their number is the return value)
encode_utf8(cp) ==
    IF cp <= 127 THEN <<Chr(cp)>>
    ELSE IF cp <= 2047
    THEN <<Chr(192 + ((cp \div 64) % 32)), Chr(128 + (cp % 64))>>
    ELSE <<Chr(224 + ((cp \div 4096) % 16)), Chr(128 + ((cp \div 64) % 64)),
           Chr(128 + (cp % 64))>>

\* the byte at index i of the buffer; the byte after the last one is the
\* terminator of the std::string
Rd(buf, i) == IF i < Len(buf) THEN buf[i + 1] ELSE NUL

\* the buffer after bytes are stored from index i on
Wr(buf, i, bytes) ==
    [k \in 1..Len(buf) |->
        IF k - 1 >= i /\ k - 1 < i + Len(bytes) THEN bytes[k - i] ELSE buf[k]]

RECURSIVE HexRun(_, _, _)
\* the number of hex digits std::from_chars consumes from index i, at most n
HexRun(buf, i, n) ==
    IF n > 0 /\ Rd(buf, i) \in hex_chars THEN 1 + HexRun(buf, i + 1, n - 1) ELSE 0

RECURSIVE HexValue(_, _, _)
\* the value of the n hex digits from index i on
HexValue(buf, i, n) ==
    IF n = 0 THEN 0 ELSE 16 * HexValue(buf, i, n - 1) + HexVal(Rd(buf, i + n - 1))

\* the switch of escape_string storing the escape character itself
escape_byte_raw == [e \in {QUOTE, BSLASH, "/", "b", "f", "n", "r", "t"} |-> e]

\* the switch of escape_string: the byte a two-character escape stands for
escape_byte ==
    [e \in {QUOTE, BSLASH, "/", "b", "f", "n", "r", "t"} |->
        CASE e = QUOTE -> QUOTE
          [] e = BSLASH -> BSLASH
          [] e = "/" -> "/"
          [] e = "b" -> Chr(8)
          [] e = "f" -> "\f"
          [] e = "n" -> "\n"
          [] e = "r" -> "\r"
          [] e = "t" -> "\t"]

\* the second loop of escape_string without its effect
zero_fill_none(buf, off, dst, len) == buf

\* the second loop of escape_string running two bytes past the range
zero_fill_beyond(buf, off, dst, len) ==
    [k \in 1..Len(buf) |->
        IF k - 1 >= off + dst /\ k - 1 < off + len + 2 THEN NUL ELSE buf[k]]

\* the second loop of escape_string: str[dst .. len) become '\0'
zero_fill(buf, off, dst, len) ==
    [k \in 1..Len(buf) |->
        IF k - 1 >= off + dst /\ k - 1 < off + len THEN NUL ELSE buf[k]]

\* escape_string stopped by a failed assert
EscAbort(buf, steps) == [buf |-> buf, ret |-> 0, abort |-> TRUE, steps |-> steps]

RECURSIVE escape_loop(_, _, _, _, _, _, _)
\* the first loop of escape_string from read index src and write index dst
\* on, then the second loop and the return. steps lists src and dst at each
\* test of the loop condition; nd is the build without asserts.
escape_loop(buf, off, len, src, dst, steps, nd) ==
    LET here == Append(steps, [src |-> src, dst |-> dst])
        e == Rd(buf, off + src + 1)
        h == HexRun(buf, off + src + 2, 4)
        bytes == encode_utf8(HexValue(buf, off + src + 2, h))
    IN  IF src >= len
        THEN [buf |-> zero_fill(buf, off, dst, len), ret |-> dst,
              abort |-> FALSE, steps |-> here]
        ELSE IF Rd(buf, off + src) # BSLASH
        THEN escape_loop(Wr(buf, off + dst, <<Rd(buf, off + src)>>),
                         off, len, src + 1, dst + 1, here, nd)
        ELSE IF src + 1 >= len /\ ~nd THEN EscAbort(buf, here)
        ELSE IF e \in DOMAIN escape_byte
        THEN escape_loop(Wr(buf, off + dst, <<escape_byte[e]>>),
                         off, len, src + 2, dst + 1, here, nd)
        ELSE IF e # "u"
        THEN escape_loop(buf, off, len, src + 2, dst, here, nd)
        ELSE IF (src + 1 + 4 >= len \/ h < 4) /\ ~nd THEN EscAbort(buf, here)
        ELSE escape_loop(Wr(buf, off + dst, bytes),
                         off, len, src + 6, dst + Len(bytes), here, nd)

\* escape_string(str, len) with str = buf.data() + off
escape_string(buf, off, len, nd) == escape_loop(buf, off, len, 0, 0, <<>>, nd)

\* one call of escape_string on a range of the buffer (one per behaviour:
\* the result depends on the buffer and the range alone)
call_escape_string ==
    /\ ~aborted
    /\ out = <<>>
    /\ \E off \in 0..Size : \E len \in 0..(Size - off) : \E nd \in BOOLEAN :
          LET r == escape_string(input, off, len, nd)
          IN  IF r.abort
              THEN /\ aborted' = TRUE
                   /\ UNCHANGED <<input, out>>
              ELSE /\ input' = r.buf
                   /\ out' = Append(out, [op |-> "escape_string", off |-> off,
                                          len |-> len, before |-> input,
                                          ret |-> r.ret, steps |-> r.steps])
                   /\ UNCHANGED aborted
    /\ UNCHANGED <<cursor, stack, calls>>

\* the pieces the buffers are built from: a plain byte, an escaped line
\* feed, an escaped backslash, an escape the switch does not know
EscUnits == {<<"a">>, <<BSLASH, "n">>, <<BSLASH, BSLASH>>, <<BSLASH, "x">>}

\* each two-character escape of the switch
SimpleUnits == {<<BSLASH, e>> : e \in DOMAIN escape_byte}

\* the hex digits the unicode escapes are built from
HexSel == {"0", "7", "8", "9", "e", "F"}

\* backslash, 'u' and four hex digits
UnicodeUnits ==
    {<<BSLASH, "u", a, b, c, d>> : a \in HexSel, b \in HexSel, c \in HexSel, d \in HexSel}

RECURSIVE UnitStrings(_, _)
\* the concatenations of at most n pieces of U
UnitStrings(U, n) ==
    IF n = 0 THEN {<<>>}
    ELSE LET S == UnitStrings(U, n - 1) IN S \cup {s \o u : s \in S, u \in U}

\* buffers of escape_string: a few pieces, or one escape after and before
\* plain bytes; escape_string is called on any range of them
InitEsc ==
    /\ input \in UnitStrings(EscUnits, MaxUnits)
            \cup {p \o u \o q : p \in Strings({"a"}, 1), u \in SimpleUnits,
                                q \in Strings({"a"}, 1)}
            \cup {p \o u : p \in Strings({"a"}, 1), u \in UnicodeUnits}
    /\ cursor = 0
    /\ stack = <<>>
    /\ aborted = FALSE
    /\ calls = <<>>
    /\ out = <<>>

NextEsc == call_escape_string

SpecEsc == InitEsc /\ [][NextEsc]_vars

-----------------------------------------------------------------------------
(* Parser::parse_string *)

\* std::string_view::substr(0, n) of a view of size bytes: its length
substr_len(size, n) == IF n < size THEN n ELSE size

\* parse_string that never decodes
parse_string_never(tok, escape_in_place, nd) ==
    [buf |-> input, abort |-> FALSE, ret |-> tok.len,
     text |-> SubSeq(input, tok.pos + 1, tok.pos + tok.len)]

\* parse_string that decodes whatever escape_in_place says
parse_string_always(tok, escape_in_place, nd) ==
    LET r == escape_string(input, tok.pos, tok.len, nd)
    IN  [buf |-> r.buf, abort |-> r.abort, ret |-> r.ret,
         text |-> SubSeq(r.buf, tok.pos + 1, tok.pos + substr_len(tok.len, r.ret))]

\* Parser::parse_string(token, escape_in_place): the buffer after the call,
\* the length len and the bytes of the returned view
parse_string_result(tok, escape_in_place, nd) ==
    LET r == escape_string(input, tok.pos, tok.len, nd)
    IN  IF escape_in_place
        THEN [buf |-> r.buf, abort |-> r.abort, ret |-> r.ret,
              text |-> SubSeq(r.buf, tok.pos + 1, tok.pos + substr_len(tok.len, r.ret))]
        ELSE [buf |-> input, abort |-> FALSE, ret |-> tok.len,
              text |-> SubSeq(input, tok.pos + 1, tok.pos + tok.len)]

\* one call of parse_string on a String token that next() has returned; the
\* assert on the token's type is the guard
parse_string ==
    /\ ~aborted
    /\ Len(out) < MaxDecodes
    /\ \E i \in 1..Len(calls) : \E escape_in_place \in BOOLEAN : \E nd \in BOOLEAN :
          /\ calls[i].tok.type = "String"
          /\ LET r == parse_string_result(calls[i].tok, escape_in_place, nd)
             IN  IF r.abort
                 THEN /\ aborted' = TRUE
                      /\ UNCHANGED <<input, out>>
                 ELSE /\ input' = r.buf
                      /\ out' = Append(out, [op |-> "parse_string", tok |-> calls[i].tok,
                                             escape |-> escape_in_place,
                                             before |-> input, after |-> r.buf,
                                             ret |-> r.ret, text |-> r.text])
                      /\ UNCHANGED aborted
    /\ UNCHANGED <<cursor, stack, calls>>

AlphaStr == {QUOTE, BSLASH, "n", "a"}

\* the pieces string literals are built from: those of EscUnits and the
\* unicode escapes of a backslash and of a two-byte character
StrUnits ==
    EscUnits \cup {<<BSLASH, "u", "0", "0", "5", "c">>, <<BSLASH, "u", "0", "0", "e", "9">>}

\* documents of strings: any bytes of AlphaStr, or one string literal of a
\* few pieces
\* literals whose unicode escape has fewer than four hex digits, with what
\* may follow the quote
ShortUnicodeDocs ==
    {<<QUOTE, BSLASH, "u">> \o h \o <<QUOTE>> \o t :
        h \in Strings({"0"}, 3), t \in Strings({"0", QUOTE}, 2)}

InitStr ==
    /\ input \in Strings(AlphaStr, MaxLenStr)
            \cup {<<QUOTE>> \o body \o <<QUOTE>> : body \in UnitStrings(StrUnits, MaxUnits)}
            \cup ShortUnicodeDocs
    /\ InitParser

NextStr == next \/ parse_string

SpecStr == InitStr /\ [][NextStr]_vars

-----------------------------------------------------------------------------
(* get_context *)

RECURSIVE find(_, _, _)
\* std::string_view::find(ch, pos): the first index >= pos holding ch, or npos
find(str, ch, pos) ==
    IF pos >= Len(str) THEN npos
    ELSE IF str[pos + 1] = ch THEN pos
    ELSE find(str, ch, pos + 1)

\* a - b in size_t: when b > a the result wraps around to 2^64 - val
size_t_sub(a, b) ==
    IF a >= b THEN [wrapped |-> FALSE, val |-> a - b]
    ELSE [wrapped |-> TRUE, val |-> b - a]

\* the loop of get_context stopping at the first line
get_context_first_line(str, cur, i, line_start, line_number) ==
    [line_start |-> 0, line_number |-> 1, line_end |-> find(str, "\n", 0)]

RECURSIVE get_context_loop(_, _, _, _, _)
\* the loop of get_context from index i on; npos is greater than any cursor cur
get_context_loop(str, cur, i, line_start, line_number) ==
    LET nl == find(str, "\n", i)
    IN  IF i >= Len(str)
        THEN [line_start |-> line_start, line_number |-> line_number,
              line_end |-> Len(str)]
        ELSE IF nl = npos \/ nl > cur
        THEN [line_start |-> line_start, line_number |-> line_number, line_end |-> nl]
        ELSE get_context_loop(str, cur, nl + 1, nl + 1, line_number + 1)

\* get_context(str, cursor), cur being its cursor; substr cuts the line at the end of str
get_context(str, cur) ==
    LET l == get_context_loop(str, cur, 0, 0, 1)
    IN  [line_number |-> l.line_number,
         column |-> size_t_sub(cur, l.line_start),
         line |-> IF l.line_end = npos
                  THEN SubSeq(str, l.line_start + 1, Len(str))
                  ELSE SubSeq(str, l.line_start + 1, l.line_end)]

\* one call of get_context on the document and an offset of it (one per
\* behaviour: the result depends on the arguments alone)
call_get_context ==
    /\ out = <<>>
    /\ \E offset \in 0..Size :
          out' = Append(out, [op |-> "get_context", cursor |-> offset,
                              context |-> get_context(input, offset)])
    /\ UNCHANGED <<input, cursor, stack, aborted, calls>>

AlphaCtx == {"a", "b", "\n"}

\* documents of up to MaxLenCtx bytes in lines
InitCtx ==
    /\ input \in Strings(AlphaCtx, MaxLenCtx)
    /\ cursor = 0
    /\ stack = <<>>
    /\ aborted = FALSE
    /\ calls = <<>>
    /\ out = <<>>

NextCtx == call_get_context

SpecCtx == InitCtx /\ [][NextCtx]_vars

-----------------------------------------------------------------------------
(* Documents that open a container *)

\* the pieces object documents are built from
MemUnits == {<<"{">>, <<"}">>, <<QUOTE, QUOTE>>, <<":">>, <<",">>, <<"1">>, <<" ">>}

\* arrays with a leading, a doubled and a trailing comma
CommaDocs ==
    {<<"[", ",", "1", ",", "2", "]">>, <<"[", "1", ",", ",", "2", "]">>,
     <<"[", "1", ",", "]">>}

\* an opening bracket followed by bytes of the array alphabet, or an opening
\* brace followed by pieces of objects, or one of the documents above
\* the array of 1 and 2 with a blank and with a comma between them
SeparatorDocs == {<<"[", "1", " ", "2", "]">>, <<"[", "1", ",", "2", "]">>}

InitNest ==
    /\ input \in {<<"[">> \o s : s \in Strings(AlphaArr, MaxInner)}
            \cup {<<"{">> \o s : s \in UnitStrings(MemUnits, MaxInner)}
            \cup CommaDocs \cup SeparatorDocs
    /\ InitParser

SpecNest == InitNest /\ [][Next]_vars

-----------------------------------------------------------------------------
(* Documents of barewords *)

AlphaWord == {"n", "u", "l", "k", "1", "-", " ", ":"}

\* true and false, alone or followed by one more byte
BoolDocs ==
    {w \o s : w \in {<<"t", "r", "u", "e">>, <<"f", "a", "l", "s", "e">>},
              s \in Strings({"k", "1", " "}, 1)}

InitWord ==
    /\ input \in Strings(AlphaWord, MaxLenWord) \cup BoolDocs
    /\ InitParser

SpecWord == InitWord /\ [][Next]_vars

-----------------------------------------------------------------------------
(* Documents that open a string literal *)

AlphaLit == {QUOTE, BSLASH, "u", "1", "x"}

InitLit ==
    /\ input \in {<<QUOTE>> \o s : s \in Strings(AlphaLit, MaxLenLit)}
    /\ InitParser

SpecLit == InitLit /\ [][Next]_vars

-----------------------------------------------------------------------------
(* Documents of whitespace *)

AlphaWs == {" ", "\t", "\n", "\r", "1", "["}

InitWs ==
    /\ input \in Strings(AlphaWs, MaxLenWs)
    /\ InitParser

SpecWs == InitWs /\ [][Next]_vars

-----------------------------------------------------------------------------
(* Number conversion: std::from_chars as parse_number uses it. A value is  *)
(* kept as its sign and its decimal digits without leading zeros, so that  *)
(* the 64-bit limits can be compared digit by digit.                       *)

UINT64_MAX == <<"1", "8", "4", "4", "6", "7", "4", "4", "0", "7", "3", "7", "0", "9",
                "5", "5", "1", "6", "1", "5">>
INT64_MAX == <<"9", "2", "2", "3", "3", "7", "2", "0", "3", "6", "8", "5", "4", "7",
               "7", "5", "8", "0", "7">>
INT64_MIN_MAG == <<"9", "2", "2", "3", "3", "7", "2", "0", "3", "6", "8", "5", "4", "7",
                   "7", "5", "8", "0", "8">>

\* value of a decimal digit
DigitVal ==
    [c \in Digits |->
        CASE c = "0" -> 0 [] c = "1" -> 1 [] c = "2" -> 2 [] c = "3" -> 3
          [] c = "4" -> 4 [] c = "5" -> 5 [] c = "6" -> 6 [] c = "7" -> 7
          [] c = "8" -> 8 [] c = "9" -> 9]

RECURSIVE DigitRun(_, _)
\* number of digits of s from index i (1-based) on
DigitRun(s, i) ==
    IF i <= Len(s) /\ s[i] \in Digits THEN 1 + DigitRun(s, i + 1) ELSE 0

RECURSIVE StripZeros(_)
\* the digits d without leading zeros ("0" for zero)
StripZeros(d) ==
    IF Len(d) > 1 /\ d[1] = "0" THEN StripZeros(Tail(d)) ELSE d

RECURSIVE DigitsLE(_, _)
\* a <= b for two digit strings of the same length
DigitsLE(a, b) ==
    IF a = <<>> THEN TRUE
    ELSE IF DigitVal[a[1]] < DigitVal[b[1]] THEN TRUE
    ELSE IF DigitVal[a[1]] > DigitVal[b[1]] THEN FALSE
    ELSE DigitsLE(Tail(a), Tail(b))

\* magnitude a (no leading zeros) is at most the limit b
MagLE(a, b) == Len(a) < Len(b) \/ (Len(a) = Len(b) /\ DigitsLE(a, b))

\* std::from_chars(first, last, value) for uint64_t: ec, the offset ptr
\* stops at, and the value
from_chars_uint64(s) ==
    LET n == DigitRun(s, 1)
        mag == StripZeros(SubSeq(s, 1, n))
    IN  IF n = 0 THEN [ec |-> "invalid_argument", ptr |-> 0, neg |-> FALSE, mag |-> <<>>]
        ELSE IF ~MagLE(mag, UINT64_MAX)
        THEN [ec |-> "result_out_of_range", ptr |-> n, neg |-> FALSE, mag |-> <<>>]
        ELSE [ec |-> "ok", ptr |-> n, neg |-> FALSE, mag |-> mag]

\* from_chars_int64 that does not take the minus sign
from_chars_int64_nosign(s) == from_chars_uint64(s)

\* std::from_chars(first, last, value) for int64_t
from_chars_int64(s) ==
    LET sign == IF Len(s) > 0 /\ s[1] = "-" THEN 1 ELSE 0
        n == DigitRun(s, sign + 1)
        mag == StripZeros(SubSeq(s, sign + 1, sign + n))
        neg == sign = 1 /\ mag # <<"0">>
    IN  IF n = 0 THEN [ec |-> "invalid_argument", ptr |-> 0, neg |-> FALSE, mag |-> <<>>]
        ELSE IF ~MagLE(mag, IF sign = 1 THEN INT64_MIN_MAG ELSE INT64_MAX)
        THEN [ec |-> "result_out_of_range", ptr |-> sign + n, neg |-> FALSE, mag |-> <<>>]
        ELSE [ec |-> "ok", ptr |-> sign + n, neg |-> neg, mag |-> mag]

\* std::from_chars(first, last, value) for double (chars_format::general):
\* [-] digits [. digits] [(e|E) [+|-] digits], at least one mantissa digit;
\* the exponent is taken only when it has a digit. The spans next() tags as
\* numbers hold no letters but e and E, so "inf" and "nan" do not arise, and
\* the value itself is not kept: ok says whether one was produced.
from_chars_double(s) ==
    LET sign == IF Len(s) > 0 /\ s[1] = "-" THEN 1 ELSE 0
        ni == DigitRun(s, sign + 1)
        dot == IF sign + ni < Len(s) /\ s[sign + ni + 1] = "." THEN 1 ELSE 0
        nf == IF dot = 1 THEN DigitRun(s, sign + ni + 2) ELSE 0
        m == sign + ni + (IF ni + nf > 0 THEN dot + nf ELSE 0)
        esign == IF m + 1 < Len(s) /\ s[m + 1] \in {"e", "E"} /\ s[m + 2] \in {"+", "-"}
                 THEN 1 ELSE 0
        ne == IF m < Len(s) /\ s[m + 1] \in {"e", "E"}
              THEN DigitRun(s, m + 2 + esign) ELSE 0
    IN  IF ni + nf = 0 THEN [ec |-> "invalid_argument", ptr |-> 0]
        ELSE [ec |-> "ok", ptr |-> IF ne > 0 THEN m + 1 + esign + ne ELSE m]

\* parse_number<T>: the value, or nullopt (ok = FALSE) when from_chars
\* failed or stopped before the end of str
parse_number(T, str) ==
    LET r == CASE T = "uint64_t" -> from_chars_uint64(str)
               [] T = "int64_t" -> from_chars_int64(str)
               [] T = "double" -> from_chars_double(str)
    IN  IF r.ec # "ok" \/ r.ptr # Len(str)
        THEN [ok |-> FALSE, neg |-> FALSE, mag |-> <<>>]
        ELSE IF T = "double" THEN [ok |-> TRUE, neg |-> FALSE, mag |-> <<>>]
        ELSE [ok |-> TRUE, neg |-> r.neg, mag |-> r.mag]

\* Parser::get_location(token): the distance from the start of the buffer
\* to the start of the token's view
get_location(tok) == tok.pos

\* Token::string(): the bytes of the token's view
TokenString(tok) == SubSeq(input, tok.pos + 1, tok.pos + tok.len)

\* the token the last next() returned (the one a caller holds)
LastToken == calls[Len(calls)].tok

\* a decode operation can be called: the parser runs and holds a token
CanDecode == ~aborted /\ Len(out) < MaxDecodes /\ calls # <<>>

\* the record of one returned parse_uint / parse_int / parse_float call;
\* res.ok = FALSE stands for the std::bad_optional_access value() throws
NumberCall(op, T) ==
    [op |-> op, tok |-> LastToken, res |-> parse_number(T, TokenString(LastToken))]

\* Parser::parse_int(token); the assert on the token's type is the guard
parse_int ==
    /\ CanDecode
    /\ LastToken.type \in {"UInt", "Int"}
    /\ out' = Append(out, NumberCall("parse_int", "int64_t"))
    /\ UNCHANGED <<input, cursor, stack, aborted, calls>>

\* Parser::parse_uint(token)
parse_uint ==
    /\ CanDecode
    /\ LastToken.type = "UInt"
    /\ out' = Append(out, NumberCall("parse_uint", "uint64_t"))
    /\ UNCHANGED <<input, cursor, stack, aborted, calls>>

\* Parser::parse_float(token)
parse_float ==
    /\ CanDecode
    /\ LastToken.type \in {"UInt", "Int", "Float"}
    /\ out' = Append(out, NumberCall("parse_float", "double"))
    /\ UNCHANGED <<input, cursor, stack, aborted, calls>>

\* literals at the limits of the 64-bit types: the largest uint64_t and the
\* value after it, the smallest int64_t and the value before it
LimitLiterals ==
    {UINT64_MAX, SubSeq(UINT64_MAX, 1, 19) \o <<"6">>,
     <<"-">> \o INT64_MIN_MAG, <<"-">> \o SubSeq(INT64_MIN_MAG, 1, 18) \o <<"9">>}

\* number literals and what surrounds them, up to MaxLenNum bytes, and the
\* literals at the 64-bit limits
InitNum ==
    /\ input \in Strings(AlphaNum, MaxLenNum) \cup LimitLiterals
    /\ InitParser

NextNum == next \/ parse_int \/ parse_uint \/ parse_float

SpecNum == InitNum /\ [][NextNum]_vars

-----------------------------------------------------------------------------
(* Tokenizing and decoding interleaved *)

\* Parser::parse_bool(token) on a token next() has returned; the assert on
\* the token's text is the guard
parse_bool ==
    /\ ~aborted
    /\ Len(out) < MaxDecodes
    /\ \E i \in 1..Len(calls) :
          /\ TokenString(calls[i].tok) \in {<<"t", "r", "u", "e">>, <<"f", "a", "l", "s", "e">>}
          /\ out' = Append(out, [op |-> "parse_bool", tok |-> calls[i].tok,
                                 ret |-> TokenString(calls[i].tok) = <<"t", "r", "u", "e">>])
    /\ UNCHANGED <<input, cursor, stack, aborted, calls>>

\* the dispatch of Parser::next() on the expectation expect with the cursor
\* at c and the rest of the stack stk
next_at(expect, c, stk, nd) ==
    CASE expect = "Error" -> error_token("Abort after previous error", c, stk)
      [] expect = "Value" -> on_value(c, stk, nd)
      [] expect = "ObjectKey" -> on_object_key(c, stk, nd)
      [] expect = "ObjectValue" -> on_object_value(c, stk, nd)
      [] expect = "ArrayValue" -> on_array_value(c, stk, nd)

\* the pieces of an array of scalars: strings with an escaped line feed, an
\* escaped quote and an escaped backslash, a lone quote, a comma, a number,
\* true, the closing bracket
MixUnits ==
    {<<QUOTE, BSLASH, "n", QUOTE>>, <<QUOTE, BSLASH, QUOTE, QUOTE>>,
     <<QUOTE, BSLASH, BSLASH, QUOTE>>, <<QUOTE>>, <<",">>, <<"1">>,
     <<"t", "r", "u", "e">>, <<"]">>}

InitMix ==
    /\ input \in {<<"[">> \o s : s \in UnitStrings(MixUnits, MaxMix)}
    /\ InitParser

NextMix == next \/ parse_string \/ parse_int \/ parse_uint \/ parse_float \/ parse_bool

SpecMix == InitMix /\ [][NextMix]_vars

-----------------------------------------------------------------------------
(* structread: from_json over a Parser held in a ParseContext *)

\* the Parser a caller holds: its cursor, its stack, the calls of next()
\* made on it so far, the buffer as the decodes have left it, and whether
\* an assert has failed
ParserOf ==
    [cursor |-> cursor, stack |-> stack, calls |-> calls, buf |-> input, abort |-> FALSE]

\* Parser::next() on the parser p
next_on(p, nd) ==
    LET r == IF p.stack = <<>>
             THEN eof_result(p.cursor)
             ELSE next_at(p.stack[Len(p.stack)], p.cursor,
                          SubSeq(p.stack, 1, Len(p.stack) - 1), nd)
    IN  IF p.abort \/ r.abort
        THEN [p EXCEPT !.abort = TRUE]
        ELSE [p EXCEPT !.cursor = r.cursor,
                       !.stack = r.stack,
                       !.calls = Append(p.calls,
                           [tok |-> r.tok,
                            expect |-> IF p.stack = <<>> THEN "none"
                                       ELSE p.stack[Len(p.stack)],
                            before |-> p.cursor,
                            depth_before |-> Len(p.stack),
                            cursor |-> r.cursor,
                            depth |-> Len(r.stack)])]

\* the token the last next() on p returned
Returned(p) == p.calls[Len(p.calls)].tok

\* Parser::parse_string(token) on the parser p, decoding in place: the
\* parser with the decoded buffer and the bytes of the returned view
parse_string_on(p, tok, nd) ==
    LET r == escape_string(p.buf, tok.pos, tok.len, nd)
    IN  IF p.abort \/ r.abort \/ (tok.type # "String" /\ ~nd)
        THEN [parser |-> [p EXCEPT !.abort = TRUE], text |-> <<>>]
        ELSE [parser |-> [p EXCEPT !.buf = r.buf],
              text |-> SubSeq(r.buf, tok.pos + 1, tok.pos + substr_len(tok.len, r.ret))]

\* the types from_json is instantiated with
uint64_t == [kind |-> "uint64_t"]
float == [kind |-> "float"]
string == [kind |-> "string"]
optional(T) == [kind |-> "optional", of |-> T]
vector(T) == [kind |-> "vector", of |-> T]
array(T, N) == [kind |-> "array", of |-> T, N |-> N]

\* MJ2_TYPE_META(Scene, name, weight, nodes, camera) and
\* MJ2_OPTIONAL_FIELDS(Scene, weight) of the example
Scene ==
    [kind |-> "struct",
     fields |-> << [name |-> <<"n", "a", "m", "e">>, type |-> string],
                   [name |-> <<"w", "e", "i", "g", "h", "t">>, type |-> float],
                   [name |-> <<"n", "o", "d", "e", "s">>, type |-> vector(uint64_t)],
                   [name |-> <<"c", "a", "m", "e", "r", "a">>, type |-> optional(uint64_t)] >>,
     optional_fields |-> { <<"w", "e", "i", "g", "h", "t">> }]

\* is_optional<T, U>(field_name)
is_optional(T, field) ==
    field.type.kind = "optional" \/ field.name \in T.optional_fields

\* concat_string of a path, a fixed text and an argument, kept as its parts
Message(path, text, arg) == [path |-> path, text |-> text, arg |-> arg]

\* what a from_json returns: its value, the context it leaves, and whether
\* an exception left it instead
Returns(ret, ctx) == [ret |-> ret, ctx |-> ctx, throws |-> FALSE]
Throws(ctx) == [ret |-> FALSE, ctx |-> ctx, throws |-> TRUE]

\* ParseContext::set_error(location, message)
set_error(ctx, location, message) ==
    Returns(FALSE, [ctx EXCEPT !.error = << [location |-> location, message |-> message] >>])

\* ParseContext::set_error(error_token); the assert on the token's type
set_error_token(ctx, tok, nd) ==
    IF tok.type # "Error" /\ ~nd
    THEN Returns(FALSE, [ctx EXCEPT !.parser.abort = TRUE])
    ELSE set_error(ctx, tok.pos, Message(<<>>, tok.msg, <<>>))

\* check_type(ctx, token, path, type, type_name), by its declaration and
\* its callers: true for a token of the type, else an error at the token
check_type(ctx, tok, path, type, type_name) ==
    IF tok.type = type THEN Returns(TRUE, ctx)
    ELSE set_error(ctx, get_location(tok), Message(path, " must be ", type_name))

\* can_convert<uint64_t>(uint64_t val): val <= max
can_convert(raw) == MagLE(raw.mag, UINT64_MAX)

\* from_json_impl for a non-bool integer, here uint64_t; parse_uint throws
\* when the token's text does not convert
from_json_impl_int(ctx, tok, path) ==
    LET raw_val == parse_number("uint64_t", SubSeq(ctx.parser.buf, tok.pos + 1, tok.pos + tok.len))
    IN  IF tok.type # "UInt"
        THEN set_error(ctx, get_location(tok), Message(path, " must be unsigned integer", <<>>))
        ELSE IF ~raw_val.ok THEN Throws(ctx)
        ELSE IF ~can_convert(raw_val)
        THEN set_error(ctx, get_location(tok), Message(path, " must be integer in range", <<>>))
        ELSE Returns(TRUE, ctx)

\* from_json_impl for a floating point type
from_json_impl_float(ctx, tok, path) ==
    LET raw_val == parse_number("double", SubSeq(ctx.parser.buf, tok.pos + 1, tok.pos + tok.len))
    IN  IF tok.type \notin {"Int", "UInt", "Float"}
        THEN set_error(ctx, get_location(tok), Message(path, " must be a number", <<>>))
        ELSE IF ~raw_val.ok THEN Throws(ctx)
        ELSE Returns(TRUE, ctx)

\* from_json_impl for std::string, by its declaration: a String token,
\* decoded with parse_string
from_json_impl_string(ctx, tok, path, nd) ==
    IF tok.type # "String"
    THEN check_type(ctx, tok, path, "String", <<"s", "t", "r", "i", "n", "g">>)
    ELSE Returns(TRUE, [ctx EXCEPT !.parser = parse_string_on(ctx.parser, tok, nd).parser])

\* the value of a set of one element: what an expression evaluates to,
\* computed once
The(S) == CHOOSE x \in S : TRUE

\* the digits of an index or a size below ten
to_string(i) == <<ToString(i)>>

RECURSIVE from_json(_, _, _, _, _)
RECURSIVE vector_loop(_, _, _, _, _, _)
RECURSIVE array_loop(_, _, _, _, _, _, _)
RECURSIVE apply_field(_, _, _, _, _, _, _)
RECURSIVE key_loop(_, _, _, _, _, _, _)

\* the loop of from_json_impl for std::vector<T> with elem the token just
\* read and i elements stored
vector_loop(T, ctx, elem, path, i, nd) ==
    IF ctx.parser.abort THEN Returns(FALSE, ctx)
    ELSE IF ~operator_bool(elem)
    THEN IF elem.type = "Error" THEN set_error_token(ctx, elem, nd)
         ELSE Returns(TRUE, ctx)
    ELSE The({ IF r.throws \/ ~r.ret \/ r.ctx.parser.abort THEN r
               ELSE The({ IF p.abort THEN Returns(FALSE, [r.ctx EXCEPT !.parser = p])
                          ELSE vector_loop(T, [r.ctx EXCEPT !.parser = p], Returned(p),
                                           path, i + 1, nd) :
                          p \in {next_on(r.ctx.parser, nd)} }) :
               r \in {from_json(T.of, ctx, elem,
                                path \o <<"[">> \o to_string(i) \o <<"]">>, nd)} })

\* the loop of from_json_impl for std::array<T, N> and what follows it
array_loop(T, ctx, elem, path, i, array_start, nd) ==
    IF ctx.parser.abort THEN Returns(FALSE, ctx)
    ELSE IF ~(operator_bool(elem) /\ i < T.N)
    THEN IF i # T.N
         THEN set_error(ctx, array_start,
                        Message(path, "must be array of size ", to_string(T.N)))
         ELSE IF elem.type = "Error" THEN set_error_token(ctx, elem, nd)
         ELSE Returns(TRUE, ctx)
    ELSE The({ IF r.throws \/ ~r.ret \/ r.ctx.parser.abort THEN r
               ELSE The({ IF p.abort THEN Returns(FALSE, [r.ctx EXCEPT !.parser = p])
                          ELSE array_loop(T, [r.ctx EXCEPT !.parser = p], Returned(p),
                                          path, i + 1, array_start, nd) :
                          p \in {next_on(r.ctx.parser, nd)} }) :
               r \in {from_json(T.of, ctx, elem,
                                path \o <<"[">> \o to_string(i) \o <<"]">>, nd)} })

\* apply_field on the fields from the k-th on, joined with &&: found holds
\* keys_found (reg: the names entered, set: those entered as true) and
\* known_key
apply_field(T, ctx, key_str, path, k, found, nd) ==
    IF k > Len(T.fields) THEN [res |-> Returns(TRUE, ctx), found |-> found]
    ELSE IF key_str # T.fields[k].name
    THEN apply_field(T, ctx, key_str, path, k + 1,
                     IF is_optional(T, T.fields[k]) THEN found
                     ELSE [found EXCEPT !.reg = found.reg \cup {T.fields[k].name}], nd)
    ELSE The({ IF p.abort
               THEN [res |-> Returns(FALSE, [ctx EXCEPT !.parser = p]), found |-> found]
               ELSE The({ IF r.throws \/ ~r.ret \/ r.ctx.parser.abort
                          THEN [res |-> r, found |-> found]
                          ELSE apply_field(T, r.ctx, key_str, path, k + 1,
                                   [reg |-> found.reg \cup {T.fields[k].name},
                                    set |-> found.set \cup {T.fields[k].name},
                                    known_key |-> TRUE], nd) :
                          r \in {from_json(T.fields[k].type, [ctx EXCEPT !.parser = p],
                                           Returned(p),
                                           path \o <<".">> \o T.fields[k].name, nd)} }) :
               p \in {next_on(ctx.parser, nd)} })

\* what follows the loop over the keys: the Error that ended it, or the
\* first name of keys_found, in the order the map is iterated, that was not
\* found
after_keys(ctx, key, path, obj_location, found, nd) ==
    LET missing == {k \in 1..Len(ctx.order) :
                      ctx.order[k] \in found.reg /\ ctx.order[k] \notin found.set}
        first == CHOOSE k \in missing : \A j \in missing : k <= j
    IN  IF key.type = "Error" THEN set_error_token(ctx, key, nd)
        ELSE IF missing # {}
        THEN set_error(ctx, obj_location, Message(path, ": Missing key '", ctx.order[first]))
        ELSE Returns(TRUE, ctx)

\* the loop of from_json_impl for a type with registered fields, with key
\* the token just read; no key_handlers are registered
key_loop(T, ctx, key, path, obj_location, found, nd) ==
    IF ctx.parser.abort THEN Returns(FALSE, ctx)
    ELSE IF ~operator_bool(key) THEN after_keys(ctx, key, path, obj_location, found, nd)
    ELSE The({ IF s.parser.abort THEN Returns(FALSE, [ctx EXCEPT !.parser = s.parser])
               ELSE The({ IF a.res.throws \/ ~a.res.ret \/ a.res.ctx.parser.abort THEN a.res
                          ELSE IF ~a.found.known_key
                          THEN set_error(a.res.ctx, get_location(key),
                                         Message(path, ": Unknown key '", s.text))
                          ELSE The({ IF p.abort
                                     THEN Returns(FALSE, [a.res.ctx EXCEPT !.parser = p])
                                     ELSE key_loop(T, [a.res.ctx EXCEPT !.parser = p],
                                                   Returned(p), path, obj_location,
                                                   a.found, nd) :
                                     p \in {next_on(a.res.ctx.parser, nd)} }) :
                          a \in {apply_field(T, [ctx EXCEPT !.parser = s.parser], s.text,
                                             path, 1, [found EXCEPT !.known_key = FALSE],
                                             nd)} }) :
               s \in {parse_string_on(ctx.parser, key, nd)} })

\* the first next() of a from_json_impl for a container, after check_type
first_next(T, ctx, tok, path, nd) ==
    The({ IF p.abort THEN Returns(FALSE, [ctx EXCEPT !.parser = p])
          ELSE CASE T.kind = "vector" ->
                      vector_loop(T, [ctx EXCEPT !.parser = p], Returned(p), path, 0, nd)
                 [] T.kind = "array" ->
                      array_loop(T, [ctx EXCEPT !.parser = p], Returned(p), path, 0,
                                 get_location(tok), nd)
                 [] T.kind = "struct" ->
                      key_loop(T, [ctx EXCEPT !.parser = p], Returned(p), path,
                               get_location(tok),
                               [reg |-> {}, set |-> {}, known_key |-> FALSE], nd) :
          p \in {next_on(ctx.parser, nd)} })

\* the name of the type in the message of check_type
type_name(T) ==
    CASE T.kind = "struct" -> <<"o", "b", "j", "e", "c", "t">>
      [] T.kind = "vector" -> <<"a", "r", "r", "a", "y">>
      [] T.kind = "array" ->
           <<"a", "r", "r", "a", "y", " ", "o", "f", " ", "s", "i", "z", "e", " ">>
               \o to_string(T.N)

\* from_json(val, ctx, token, path) for val of type T, with the
\* from_json_impl of T
from_json(T, ctx, tok, path, nd) ==
    IF ctx.error # <<>> THEN Returns(FALSE, ctx)
    ELSE IF tok.type = "Error" THEN set_error_token(ctx, tok, nd)
    ELSE CASE T.kind = "uint64_t" -> from_json_impl_int(ctx, tok, path)
           [] T.kind = "float" -> from_json_impl_float(ctx, tok, path)
           [] T.kind = "string" -> from_json_impl_string(ctx, tok, path, nd)
           [] T.kind = "optional" -> from_json(T.of, ctx, tok, path, nd)
           [] T.kind \in {"vector", "array", "struct"} ->
                The({ IF ~t.ret THEN t ELSE first_next(T, ctx, tok, path, nd) :
                      t \in {check_type(ctx, tok, path,
                                        IF T.kind = "struct" THEN "Object" ELSE "Array",
                                        type_name(T))} })

\* from_json(val, ctx) on a ParseContext just constructed over the buffer,
\* for val of type T; order is the iteration order of keys_found
call_from_json(T, order) ==
    /\ ~aborted
    /\ calls = <<>>
    /\ out = <<>>
    /\ \E nd \in BOOLEAN :
       \E p \in {next_on(ParserOf, nd)} :
       \E r \in {IF p.abort
                 THEN Returns(FALSE, [parser |-> p, error |-> <<>>, order |-> order])
                 ELSE from_json(T, [parser |-> p, error |-> <<>>, order |-> order],
                                Returned(p), <<>>, nd)} :
          IF r.ctx.parser.abort
          THEN /\ aborted' = TRUE
               /\ UNCHANGED <<input, cursor, stack, calls, out>>
          ELSE /\ input' = r.ctx.parser.buf
               /\ cursor' = r.ctx.parser.cursor
               /\ stack' = r.ctx.parser.stack
               /\ calls' = r.ctx.parser.calls
               /\ out' = << [op |-> "from_json", type |-> T, ret |-> r.ret,
                             throws |-> r.throws, error |-> r.ctx.error,
                             consumed |-> Len(r.ctx.parser.calls)] >>
               /\ UNCHANGED aborted

\* from_json into a std::array<uint64_t, N>
from_json_array == \E N \in 1..MaxN : call_from_json(array(uint64_t, N), <<>>)

\* the pieces after the opening bracket of an array of numbers
AlphaFix == {"1", ",", "]", " ", "[", "-"}

InitFix ==
    /\ input \in {<<"[">> \o s : s \in Strings(AlphaFix, MaxLenFix)}
    /\ InitParser

NextFix == from_json_array

SpecFix == InitFix /\ [][NextFix]_vars

\* the names of the fields of Scene that are not optional, in some order
SceneOrders ==
    { << <<"n", "a", "m", "e">>, <<"n", "o", "d", "e", "s">> >>,
      << <<"n", "o", "d", "e", "s">>, <<"n", "a", "m", "e">> >> }

\* from_json into a Scene
from_json_Scene == \E order \in SceneOrders : call_from_json(Scene, order)

\* the pieces after the opening brace of an object read into a Scene: the
\* four members, a member with another key, a comma, the closing brace
SceneUnits ==
    { <<QUOTE, "n", "a", "m", "e", QUOTE, ":", QUOTE, "a", QUOTE>>,
      <<QUOTE, "w", "e", "i", "g", "h", "t", QUOTE, ":", "1">>,
      <<QUOTE, "n", "o", "d", "e", "s", QUOTE, ":", "[", "1", "]">>,
      <<QUOTE, "c", "a", "m", "e", "r", "a", QUOTE, ":", "1">>,
      <<QUOTE, "x", QUOTE, ":", "1">>,
      <<",">>, <<"}">> }

InitScene ==
    /\ input \in {<<"{">> \o s : s \in UnitStrings(SceneUnits, MaxMembers)}
    /\ InitParser

NextScene == from_json_Scene

SpecScene == InitScene /\ [][NextScene]_vars

-----------------------------------------------------------------------------
(* The DOM builder to_dom over a Parser *)

\* what a to_dom leaves: the value it returns or the exception that left
\* it, and the parser
DomValue(dom, p) == [throws |-> FALSE, dom |-> dom, parser |-> p]
DomThrows(p) == [throws |-> TRUE, dom |-> [type |-> "Invalid"], parser |-> p]

\* Object::emplace(key, value) on the std::pmr::map: one member per key, a
\* key already present is not entered again; the members are listed in
\* the order they were entered
emplace(object, key, value) ==
    IF \E k \in 1..Len(object) : object[k].key = key THEN object
    ELSE Append(object, [key |-> key, value |-> value])

RECURSIVE to_dom(_, _, _, _)
RECURSIVE to_dom_array(_, _, _, _, _)
RECURSIVE to_dom_object(_, _, _, _, _)

\* the loop of the Array case with elem the token just read
to_dom_array(p, elem, arr, key_first, nd) ==
    IF p.abort THEN DomThrows(p)
    ELSE IF ~operator_bool(elem) THEN DomValue([type |-> "Array", items |-> arr], p)
    ELSE The({ IF r.throws \/ r.parser.abort THEN r
               ELSE The({ IF q.abort THEN DomThrows(q)
                          ELSE to_dom_array(q, Returned(q), Append(arr, r.dom),
                                            key_first, nd) :
                          q \in {next_on(r.parser, nd)} }) :
               r \in {to_dom(p, elem, key_first, nd)} })

\* parser.next() and to_dom on the token it returns
to_dom_next(p, key_first, nd) ==
    The({ IF v.abort THEN DomThrows(v) ELSE to_dom(v, Returned(v), key_first, nd) :
          v \in {next_on(p, nd)} })

\* the two arguments of emplace, evaluated in either order: key_first says
\* that parse_string(key) runs before parser.next() and to_dom. The result
\* is the view of the key and what to_dom left.
emplace_arguments(p, key, key_first, nd) ==
    IF key_first
    THEN The({ IF s.parser.abort THEN [text |-> s.text, value |-> DomThrows(s.parser)]
               ELSE [text |-> s.text, value |-> to_dom_next(s.parser, key_first, nd)] :
               s \in {parse_string_on(p, key, nd)} })
    ELSE The({ IF r.throws \/ r.parser.abort THEN [text |-> <<>>, value |-> r]
               ELSE The({ [text |-> s.text, value |-> DomValue(r.dom, s.parser)] :
                          s \in {parse_string_on(r.parser, key, nd)} }) :
               r \in {to_dom_next(p, key_first, nd)} })

\* the loop of the Object case with key the token just read
to_dom_object(p, key, object, key_first, nd) ==
    IF p.abort THEN DomThrows(p)
    ELSE IF ~operator_bool(key) THEN DomValue([type |-> "Object", members |-> object], p)
    ELSE IF key.type # "String" /\ ~nd THEN DomThrows([p EXCEPT !.abort = TRUE])
    ELSE The({ IF a.value.throws \/ a.value.parser.abort THEN a.value
               ELSE The({ IF q.abort THEN DomThrows(q)
                          ELSE to_dom_object(q, Returned(q),
                                             emplace(object, a.text, a.value.dom),
                                             key_first, nd) :
                          q \in {next_on(a.value.parser, nd)} }) :
               a \in {emplace_arguments(p, key, key_first, nd)} })

\* the view of a token in the buffer of the parser p
view(p, tok) == SubSeq(p.buf, tok.pos + 1, tok.pos + tok.len)

\* to_dom(parser, token, mem_res)
to_dom(p, tok, key_first, nd) ==
    CASE tok.type = "Null" -> DomValue([type |-> "Null"], p)
      [] tok.type = "String" ->
           The({ IF s.parser.abort THEN DomThrows(s.parser)
                 ELSE DomValue([type |-> "String", text |-> s.text], s.parser) :
                 s \in {parse_string_on(p, tok, nd)} })
      [] tok.type \in {"Int", "UInt", "Float"} ->
           IF parse_number("double", view(p, tok)).ok
           THEN DomValue([type |-> "Number", text |-> view(p, tok)], p)
           ELSE DomThrows(p)
      [] tok.type = "Bool" ->
           IF view(p, tok) \notin {<<"t", "r", "u", "e">>, <<"f", "a", "l", "s", "e">>} /\ ~nd
           THEN DomThrows([p EXCEPT !.abort = TRUE])
           ELSE DomValue([type |-> "Bool", value |-> view(p, tok) = <<"t", "r", "u", "e">>], p)
      [] tok.type = "Array" ->
           The({ IF first.abort THEN DomThrows(first)
                 ELSE to_dom_array(first, Returned(first), <<>>, key_first, nd) :
                 first \in {next_on(p, nd)} })
      [] tok.type = "Object" ->
           The({ IF first.abort THEN DomThrows(first)
                 ELSE to_dom_object(first, Returned(first), <<>>, key_first, nd) :
                 first \in {next_on(p, nd)} })
      [] OTHER -> DomThrows(p)

\* print_dom: a Parser constructed over the buffer, then
\* to_dom(parser, parser.next(), &pool)
print_dom ==
    /\ ~aborted
    /\ calls = <<>>
    /\ out = <<>>
    /\ \E nd \in BOOLEAN : \E key_first \in BOOLEAN :
       \E r \in {to_dom_next(ParserOf, key_first, nd)} :
          IF r.parser.abort
          THEN /\ aborted' = TRUE
               /\ UNCHANGED <<input, cursor, stack, calls, out>>
          ELSE /\ input' = r.parser.buf
               /\ cursor' = r.parser.cursor
               /\ stack' = r.parser.stack
               /\ calls' = r.parser.calls
               /\ out' = << [op |-> "to_dom", throws |-> r.throws, dom |-> r.dom,
                             ret |-> IF r.throws THEN 1 ELSE 0,
                             consumed |-> Len(r.parser.calls)] >>
               /\ UNCHANGED aborted

AlphaDom == {"[", "]", "{", "}", QUOTE, ":", ",", "1"}

InitDom ==
    /\ input \in Strings(AlphaDom, MaxLenDom)
    /\ InitParser

NextDom == print_dom

SpecDom == InitDom /\ [][NextDom]_vars

-----------------------------------------------------------------------------
(* The JSON grammar of RFC 8259, as a recognizer over the buffer. It is    *)
(* the reference for "syntactically valid" and is independent of the       *)
(* parser's handlers. Every operator returns the offset after what it      *)
(* recognised, or npos.                                                    *)

JsonWs == {" ", "\t", "\n", "\r"}
JsonEscapes == {QUOTE, BSLASH, "/", "b", "f", "n", "r", "t"}
JsonHex == Digits \cup {"a", "b", "c", "d", "e", "f", "A", "B", "C", "D", "E", "F"}

RECURSIVE JWs(_)
JWs(i) == IF i < Size /\ At(i) \in JsonWs THEN JWs(i + 1) ELSE i

RECURSIVE JDigits(_)
JDigits(i) == IF i < Size /\ At(i) \in Digits THEN JDigits(i + 1) ELSE i

RECURSIVE JStrBody(_)
\* i is inside a string literal, after its opening quote
JStrBody(i) ==
    IF i >= Size THEN npos
    ELSE IF At(i) = QUOTE THEN i + 1
    ELSE IF At(i) \in {"\t", "\n", "\r"} THEN npos
    ELSE IF At(i) # BSLASH THEN JStrBody(i + 1)
    ELSE IF i + 1 >= Size THEN npos
    ELSE IF At(i + 1) \in JsonEscapes THEN JStrBody(i + 2)
    ELSE IF At(i + 1) = "u" /\ i + 5 < Size /\ \A k \in 2..5 : At(i + k) \in JsonHex
    THEN JStrBody(i + 6)
    ELSE npos

JNumber(i) ==
    LET a == IF At(i) = "-" THEN i + 1 ELSE i
    IN  IF a >= Size \/ At(a) \notin Digits THEN npos
        ELSE LET b == IF At(a) = "0" THEN a + 1 ELSE JDigits(a)
                 c == IF b < Size /\ At(b) = "."
                      THEN (IF JDigits(b + 1) > b + 1 THEN JDigits(b + 1) ELSE npos)
                      ELSE b
                 s == IF c # npos /\ c + 1 < Size /\ At(c + 1) \in {"+", "-"}
                      THEN c + 2 ELSE c + 1
             IN  IF c = npos THEN npos
                 ELSE IF c < Size /\ At(c) \in {"e", "E"}
                 THEN (IF JDigits(s) > s THEN JDigits(s) ELSE npos)
                 ELSE c

JWord(i, w) ==
    IF i + Len(w) <= Size /\ SubSeq(input, i + 1, i + Len(w)) = w
    THEN i + Len(w) ELSE npos

RECURSIVE JValue(_), JElements(_), JMembers(_)
JValue(i0) ==
    LET i == JWs(i0)
    IN  IF i >= Size THEN npos
        ELSE IF At(i) = QUOTE THEN JStrBody(i + 1)
        ELSE IF At(i) = "["
        THEN (IF JWs(i + 1) < Size /\ At(JWs(i + 1)) = "]"
              THEN JWs(i + 1) + 1 ELSE JElements(i + 1))
        ELSE IF At(i) = "{"
        THEN (IF JWs(i + 1) < Size /\ At(JWs(i + 1)) = "}"
              THEN JWs(i + 1) + 1 ELSE JMembers(i + 1))
        ELSE IF At(i) = "n" THEN JWord(i, <<"n", "u", "l", "l">>)
        ELSE IF At(i) = "t" THEN JWord(i, <<"t", "r", "u", "e">>)
        ELSE IF At(i) = "f" THEN JWord(i, <<"f", "a", "l", "s", "e">>)
        ELSE IF At(i) \in Digits \cup {"-"} THEN JNumber(i)
        ELSE npos

\* the elements of an array from offset i on, up to and including ']'
JElements(i) ==
    LET v == JValue(i)
        j == JWs(v)
    IN  IF v = npos \/ j >= Size THEN npos
        ELSE IF At(j) = "]" THEN j + 1
        ELSE IF At(j) = "," THEN JElements(j + 1)
        ELSE npos

\* the members of an object from offset i on, up to and including '}'
JMembers(i) ==
    LET k == JWs(i)
        s == IF k < Size /\ At(k) = QUOTE THEN JStrBody(k + 1) ELSE npos
        c == JWs(s)
        v == IF s # npos /\ c < Size /\ At(c) = ":" THEN JValue(c + 1) ELSE npos
        j == JWs(v)
    IN  IF v = npos \/ j >= Size THEN npos
        ELSE IF At(j) = "}" THEN j + 1
        ELSE IF At(j) = "," THEN JMembers(j + 1)
        ELSE npos

\* the buffer holds exactly one JSON value, surrounded by optional whitespace
ValidJSON == JValue(0) # npos /\ JWs(JValue(0)) = Size

\* a byte that can be the first byte of a JSON value
CanStartValue(ch) == ch \in {QUOTE, "[", "{", "-", "n", "t", "f"} \cup Digits

-----------------------------------------------------------------------------
(* Views of the history *)

NCalls == Len(calls)
Tok(i) == calls[i].tok

\* index of the first call that returned Error, NCalls + 1 when there is none
FirstError ==
    LET errs == {i \in 1..NCalls : Tok(i).type = "Error"}
    IN  IF errs = {} THEN NCalls + 1 ELSE CHOOSE i \in errs : \A j \in errs : i <= j

\* index of the first call that returned Eof, NCalls + 1 when there is none
FirstEof ==
    LET eofs == {i \in 1..NCalls : Tok(i).type = "Eof"}
    IN  IF eofs = {} THEN NCalls + 1 ELSE CHOOSE i \in eofs : \A j \in eofs : i <= j

RECURSIVE Walk(_)
\* the containers left open by the first k returned tokens, innermost last;
\* ok is FALSE once an End token did not close the innermost open container
\* of its kind or an Eof came with a container open
Walk(k) ==
    IF k = 0 THEN [ok |-> TRUE, open |-> <<>>]
    ELSE LET w == Walk(k - 1)
             t == Tok(k).type
             n == Len(w.open)
         IN  IF ~w.ok THEN w
             ELSE IF t \in {"Array", "Object"}
             THEN [ok |-> TRUE, open |-> Append(w.open, t)]
             ELSE IF t = "EndArray"
             THEN (IF n > 0 /\ w.open[n] = "Array"
                   THEN [ok |-> TRUE, open |-> SubSeq(w.open, 1, n - 1)]
                   ELSE [ok |-> FALSE, open |-> w.open])
             ELSE IF t = "EndObject"
             THEN (IF n > 0 /\ w.open[n] = "Object"
                   THEN [ok |-> TRUE, open |-> SubSeq(w.open, 1, n - 1)]
                   ELSE [ok |-> FALSE, open |-> w.open])
             ELSE IF t = "Eof"
             THEN [ok |-> n = 0, open |-> w.open]
             ELSE w

-----------------------------------------------------------------------------
(* Claims *)

\* C1: once a next() call has returned Error, every later call returns Error
\* with the message "Abort after previous error".
C1_StickyError ==
    LET e == FirstError
    IN  \A j \in (e + 1)..NCalls :
            Tok(j).type = "Error" /\ Tok(j).msg = "Abort after previous error"

\* an error that came after at least one good token, and a call after it
C1_Witness ==
    /\ NCalls >= 3
    /\ Tok(1).type # "Error"
    /\ Tok(NCalls - 1).type = "Error"
    /\ Tok(NCalls - 1).msg # "Abort after previous error"
    /\ Tok(NCalls).type = "Error"

\* C2: for a syntactically valid JSON document no call returns Error (and no
\* assertion fails), the Array/Object tokens are closed by their matching End
\* tokens in depth-first order, and the call made once the top-level value is
\* complete returns Eof.
C2_ValidDocumentTokenizes ==
    ValidJSON =>
        /\ ~aborted
        /\ \A i \in 1..NCalls : Tok(i).type # "Error"
        /\ Walk(NCalls).ok
        /\ \A i \in 1..NCalls : calls[i].depth_before = 0 <=> Tok(i).type = "Eof"

\* C3: over the tokens returned before the first Error, no End token comes
\* without an open container, every End token closes the innermost open
\* container and is of its kind, and an Eof comes only with no container open.
C3_Balanced == Walk(FirstError - 1).ok

\* an array holding an object, both closed, and the Eof after them
C3_Witness ==
    /\ NCalls >= 5
    /\ Tok(1).type = "Array"
    /\ Tok(2).type = "Object"
    /\ Tok(3).type = "EndObject"
    /\ Tok(4).type = "EndArray"
    /\ Tok(5).type = "Eof"

\* C4: for a document that is not syntactically valid JSON no call returns
\* Eof, and after the first Error no Array, Object, EndArray or EndObject
\* token is returned.
C4_InvalidDocumentErrors ==
    ~ValidJSON =>
        /\ \A i \in 1..NCalls : Tok(i).type # "Eof"
        /\ \A i \in 1..NCalls :
              i > FirstError =>
                  Tok(i).type \notin {"Array", "Object", "EndArray", "EndObject"}

\* C5: a call made with the expectation stack empty returns Eof and leaves
\* the cursor and the stack as they were; after an Eof every later call
\* returns Eof with the same cursor.
C5_EofForever ==
    /\ \A i \in 1..NCalls :
          calls[i].depth_before = 0 =>
              /\ Tok(i).type = "Eof"
              /\ calls[i].cursor = calls[i].before
              /\ calls[i].depth = 0
    /\ LET e == FirstEof
       IN  \A j \in (e + 1)..NCalls :
               Tok(j).type = "Eof" /\ calls[j].cursor = calls[e].cursor

\* a container was closed, then Eof was returned by two calls in a row
C5_Witness ==
    /\ NCalls >= 4
    /\ Tok(NCalls - 2).type \in {"EndArray", "EndObject"}
    /\ Tok(NCalls - 1).type = "Eof"
    /\ Tok(NCalls).type = "Eof"

\* C6 as stated, for the documents that are valid JSON: whenever Eof is
\* returned its span is empty and the cursor is at the end of the input.
C6_EofSpanEmpty ==
    ValidJSON =>
        \A i \in 1..NCalls :
            Tok(i).type = "Eof" => Tok(i).len = 0 /\ calls[i].cursor = Size

\* C6 as amended: whenever Eof is returned its span is the unconsumed rest of
\* the input, from the cursor to the end of the input (empty only when the
\* cursor is at the end).
C6_EofSpanIsRest ==
    \A i \in 1..NCalls :
        Tok(i).type = "Eof" =>
            /\ Tok(i).pos = calls[i].cursor
            /\ Tok(i).pos + Tok(i).len = Size
            /\ (Tok(i).len = 0 <=> calls[i].cursor = Size)

\* an Eof after a valid document that ends in whitespace: its span is not empty
C6_Witness ==
    /\ ValidJSON
    /\ \E i \in 1..NCalls : Tok(i).type = "Eof" /\ Tok(i).len > 0

\* the document is '[' d ',' d ... ',' d ']' with n >= 1 single digits
IsDigitArray ==
    /\ Size >= 3
    /\ Size % 2 = 1
    /\ At(0) = "["
    /\ At(Size - 1) = "]"
    /\ \A k \in 1..(Size - 2) : IF k % 2 = 1 THEN At(k) \in Digits ELSE At(k) = ","

\* the token the i-th call returns for such a document
DigitArrayToken(i) ==
    LET n == (Size - 1) \div 2
    IN  IF i = 1 THEN Token("Array", 0, 1)
        ELSE IF i <= n + 1 THEN Token("UInt", 2 * (i - 1) - 1, 1)
        ELSE IF i = n + 2 THEN Token("EndArray", Size - 1, 1)
        ELSE Token("Eof", Size, 0)

\* the tokens between an open token and the End token that closes it lie
\* between the two in the text
ChildrenInside ==
    LET e == FirstError
        d == [k \in 0..NCalls |-> Len(Walk(k).open)]
    IN  \A i \in 1..(e - 1) : \A j \in (i + 1)..(e - 1) :
            /\ Tok(i).type \in {"Array", "Object"}
            /\ Tok(j).type \in {"EndArray", "EndObject"}
            /\ d[j] = d[i - 1]
            /\ \A k \in i..(j - 1) : d[k] > d[i - 1]
            => \A k \in (i + 1)..(j - 1) :
                  /\ Tok(i).pos < Tok(k).pos
                  /\ Tok(k).pos + Tok(k).len <= Tok(j).pos
                  /\ k + 1 < j => Tok(k).pos < Tok(k + 1).pos

DigitArrayTokens ==
    IsDigitArray => \A i \in 1..NCalls : Tok(i) = DigitArrayToken(i)

\* C7 as stated, for the documents that are valid JSON: children lie between
\* their container's open and End token in text order, the span of every
\* token that is not an Error starts at or after the end of the span of the
\* token before it, and an array of n digits yields Array, n UInt, EndArray
\* and then Eof.
C7_DocumentOrderAllTokens ==
    ValidJSON =>
        /\ ChildrenInside
        /\ \A i \in 2..NCalls :
              i < FirstError => Tok(i - 1).pos + Tok(i - 1).len <= Tok(i).pos
        /\ DigitArrayTokens

\* C7 as amended: the same, the span order being claimed of the tokens up to
\* and including the first Eof (a repeated Eof has the span of the first).
C7_DocumentOrder ==
    /\ ChildrenInside
    /\ \A i \in 2..NCalls :
          i < FirstError /\ i <= FirstEof =>
              Tok(i - 1).pos + Tok(i - 1).len <= Tok(i).pos
    /\ \A i \in 1..NCalls : \A j \in (i + 1)..NCalls :
          Tok(i).type = "Eof" /\ Tok(j).type = "Eof" => Tok(j) = Tok(i)
    /\ DigitArrayTokens

\* the document [1,1,1] read to its end and one call further
C7_Witness ==
    /\ IsDigitArray
    /\ Size = 7
    /\ NCalls = 7
    /\ Tok(4).type = "UInt"
    /\ Tok(6).type = "Eof"
    /\ Tok(7).type = "Eof"

\* C8: after the first Error the cursor no longer moves, every later Error
\* token has the error_location() of the first and the length of the
\* expectation stack no longer changes.
C8_ErrorFrame ==
    LET e == FirstError
    IN  \A j \in (e + 1)..NCalls :
            /\ calls[j].cursor = calls[e].cursor
            /\ calls[j].before = calls[e].cursor
            /\ Tok(j).type = "Error" => Tok(j).pos = Tok(e).pos
            /\ calls[j].depth = calls[e].depth

\* an error inside a container, past the start of the input, and a call after it
C8_Witness ==
    /\ FirstError + 1 <= NCalls
    /\ FirstError > 1
    /\ Tok(FirstError).pos > 0
    /\ calls[FirstError].depth > 1

\* C9: when the call after a quoted object key finds ':' and then, after
\* whitespace, a byte that cannot start a value, it returns Error located at
\* that byte, and every later call returns Error.
C9_MissingValueError ==
    \A i \in 1..NCalls :
        LET colon == JWs(calls[i].before)
            p == JWs(colon + 1)
        IN  /\ calls[i].expect = "ObjectValue"
            /\ i > 1
            /\ calls[i - 1].expect = "ObjectKey"
            /\ Tok(i - 1).type = "String"
            /\ Tok(i - 1).pos > 0
            /\ At(Tok(i - 1).pos - 1) = QUOTE
            /\ colon < Size
            /\ At(colon) = ":"
            /\ p < Size
            /\ ~CanStartValue(At(p))
            => /\ Tok(i).type = "Error"
               /\ Tok(i).pos = p
               /\ \A j \in (i + 1)..NCalls : Tok(j).type = "Error"

TruthyTypes == {"Null", "Bool", "UInt", "Int", "Float", "String", "Array", "Object"}
FalsyTypes == {"EndArray", "EndObject", "Eof", "Error"}

\* C10: operator bool is true exactly for Null, Bool, UInt, Int, Float,
\* String, Array and Object and false exactly for EndArray, EndObject, Eof
\* and Error.
C10_OperatorBool ==
    /\ \A k \in 1..Len(Types) :
          /\ operator_bool(Token(Types[k], 0, 0)) <=> Types[k] \in TruthyTypes
          /\ ~operator_bool(Token(Types[k], 0, 0)) <=> Types[k] \in FalsyTypes
    /\ \A i \in 1..NCalls :
          /\ operator_bool(Tok(i)) <=> Tok(i).type \in TruthyTypes
          /\ ~operator_bool(Tok(i)) <=> Tok(i).type \in FalsyTypes

\* a loop over an array: a truthy element, the falsy EndArray, the falsy Eof
C10_Witness ==
    /\ NCalls >= 4
    /\ operator_bool(Tok(1))
    /\ operator_bool(Tok(2))
    /\ Tok(3).type = "EndArray" /\ ~operator_bool(Tok(3))
    /\ Tok(4).type = "Eof" /\ ~operator_bool(Tok(4))

-----------------------------------------------------------------------------
(* Numbers (SpecNum) *)

NumberTypes == {"UInt", "Int", "Float"}

\* the bytes of the span of the token call i returned
Span(i) == SubSeq(input, Tok(i).pos + 1, Tok(i).pos + Tok(i).len)

\* s is one or more digits
AllDigits(s) == s # <<>> /\ \A k \in 1..Len(s) : s[k] \in Digits

\* C11: a numeric literal is tagged from its characters alone: UInt when it
\* consists only of digits, Int when it is a single leading '-' followed
\* only by digits, Float whenever it contains '.', 'e', 'E', '+' or a '-'
\* that is not the single leading character.
C11_TaggedFromCharacters ==
    \A i \in 1..NCalls :
        Tok(i).type \in NumberTypes =>
            LET s == Span(i)
            IN  /\ AllDigits(s) => Tok(i).type = "UInt"
                /\ (s[1] = "-" /\ AllDigits(Tail(s))) => Tok(i).type = "Int"
                /\ (\E k \in 1..Len(s) :
                        \/ s[k] \in {".", "e", "E", "+"}
                        \/ (s[k] = "-" /\ k > 1)) => Tok(i).type = "Float"

\* the decode operation that matches a number token's type
MatchingParse == [UInt |-> "parse_uint", Int |-> "parse_int", Float |-> "parse_float"]

\* C12: every token that next() tags UInt, Int or Float has a span that is a
\* syntactically valid number: the matching parse_uint / parse_int /
\* parse_float call converts the whole span and never reaches the empty
\* optional.
C12_NumberTokensConvert ==
    \A k \in 1..Len(out) :
        (/\ out[k].tok.type \in NumberTypes
         /\ out[k].op = MatchingParse[out[k].tok.type]) => out[k].res.ok

RECURSIVE NatOf(_)
\* the number a run of at most MaxLenNum decimal digits denotes
NatOf(d) ==
    IF d = <<>> THEN 0 ELSE 10 * NatOf(SubSeq(d, 1, Len(d) - 1)) + DigitVal[d[Len(d)]]

\* the value a conversion returned, for a short literal
ResultInt(res) == IF res.neg THEN 0 - NatOf(res.mag) ELSE NatOf(res.mag)

\* the digits d denote a value of the unsigned 64-bit range
InUInt64(d) == Len(d) <= MaxLenNum \/ d = UINT64_MAX

\* '-' followed by the digits d denotes a value of the signed 64-bit range
InInt64(d) == Len(d) <= MaxLenNum \/ d = INT64_MIN_MAG

\* the returned value res is exactly sign * (the value the digits d denote)
ReturnsExactly(res, negative, d) ==
    /\ res.ok
    /\ IF Len(d) <= MaxLenNum
       THEN ResultInt(res) = (IF negative THEN 0 - NatOf(d) ELSE NatOf(d))
       ELSE res.neg = negative /\ res.mag = d

\* C13: for a UInt token whose digits denote a value within the unsigned
\* 64-bit range parse_uint returns exactly that value, and for an Int token
\* '-' followed by digits within the signed 64-bit range parse_int returns
\* exactly the negated value.
C13_ExactInteger ==
    \A k \in 1..Len(out) :
        LET s == SubSeq(input, out[k].tok.pos + 1, out[k].tok.pos + out[k].tok.len)
        IN  /\ (/\ out[k].op = "parse_uint" /\ out[k].tok.type = "UInt"
                /\ AllDigits(s) /\ InUInt64(s))
                    => ReturnsExactly(out[k].res, FALSE, s)
            /\ (/\ out[k].op = "parse_int" /\ out[k].tok.type = "Int"
                /\ s[1] = "-" /\ AllDigits(Tail(s)) /\ InInt64(Tail(s)))
                    => ReturnsExactly(out[k].res, TRUE, Tail(s))

\* the document -123: next() returned an Int token and parse_int minus 123
C13_Witness ==
    /\ input = <<"-", "1", "2", "3">>
    /\ \E k \in 1..Len(out) :
          /\ out[k].op = "parse_int" /\ out[k].tok.type = "Int"
          /\ out[k].res.ok /\ ResultInt(out[k].res) = 0 - 123

\* the largest uint64_t converts, the value after it does not
C13_LimitWitness ==
    /\ input = UINT64_MAX
    /\ \E k \in 1..Len(out) :
          /\ out[k].op = "parse_uint" /\ out[k].res.ok /\ out[k].res.mag = UINT64_MAX

-----------------------------------------------------------------------------
(* Escape decoding (SpecEsc) *)

\* the single-byte meaning of the two-character escapes: 0x22, 0x5C, 0x2F,
\* 0x08, 0x0C, 0x0A, 0x0D, 0x09
Meaning ==
    (QUOTE :> Chr(34)) @@ (BSLASH :> Chr(92)) @@ ("/" :> Chr(47)) @@ ("b" :> Chr(8))
    @@ ("f" :> Chr(12)) @@ ("n" :> Chr(10)) @@ ("r" :> Chr(13)) @@ ("t" :> Chr(9))

RECURSIVE OnlySimple(_)
\* s is made of plain bytes and two-character escapes
OnlySimple(s) ==
    IF s = <<>> THEN TRUE
    ELSE IF s[1] # BSLASH THEN OnlySimple(Tail(s))
    ELSE Len(s) >= 2 /\ s[2] \in DOMAIN Meaning /\ OnlySimple(SubSeq(s, 3, Len(s)))

RECURSIVE SimpleDecoded(_)
\* the text of such an s: plain bytes in order, each escape by its meaning
SimpleDecoded(s) ==
    IF s = <<>> THEN <<>>
    ELSE IF s[1] # BSLASH THEN <<s[1]>> \o SimpleDecoded(Tail(s))
    ELSE <<Meaning[s[2]]>> \o SimpleDecoded(SubSeq(s, 3, Len(s)))

\* the returned escape_string calls
EscCalls == {k \in 1..Len(out) : out[k].op = "escape_string"}

\* the bytes of the range of call k before the call
RangeBefore(k) == SubSeq(out[k].before, out[k].off + 1, out[k].off + out[k].len)

\* C14: escape_string scans the range left to right; every byte that is not
\* part of an escape sequence is copied to the output in its original
\* order, and each two-character escape is replaced by its single-byte
\* meaning.
C14_TwoCharacterEscapes ==
    \A k \in EscCalls :
        /\ \A i \in 1..(Len(out[k].steps) - 1) :
              out[k].steps[i].src < out[k].steps[i + 1].src
        /\ OnlySimple(RangeBefore(k)) =>
              /\ out[k].ret = Len(SimpleDecoded(RangeBefore(k)))
              /\ SubSeq(input, out[k].off + 1, out[k].off + out[k].ret)
                    = SimpleDecoded(RangeBefore(k))

\* a\na was decoded to a, line feed, a
C14_Witness ==
    /\ out # <<>>
    /\ out[1].op = "escape_string"
    /\ out[1].before = <<"a", BSLASH, "n", "a">>
    /\ out[1].off = 0 /\ out[1].len = 4 /\ out[1].ret = 3
    /\ input = <<"a", "\n", "a", NUL>>

\* what C15 says of the returned call k: the result is no longer than the
\* range, the write index never overtakes the read index, the rest of the
\* range is zero and no byte outside the range has changed
InPlaceResult(k) ==
    /\ out[k].ret <= out[k].len
    /\ \A i \in 1..Len(out[k].steps) : out[k].steps[i].dst <= out[k].steps[i].src
    /\ \A j \in (out[k].off + out[k].ret)..(out[k].off + out[k].len - 1) :
          input[j + 1] = NUL
    /\ Len(input) = Len(out[k].before)
    /\ \A j \in 0..(Len(input) - 1) :
          (j < out[k].off \/ j >= out[k].off + out[k].len)
              => input[j + 1] = out[k].before[j + 1]

RECURSIVE EscapesInside(_)
\* no escape sequence of s runs past the end of s: what the two asserts of
\* escape_string require of the range
EscapesInside(s) ==
    IF s = <<>> THEN TRUE
    ELSE IF s[1] # BSLASH THEN EscapesInside(Tail(s))
    ELSE IF Len(s) < 2 THEN FALSE
    ELSE IF s[2] = "u" THEN Len(s) >= 6 /\ EscapesInside(SubSeq(s, 7, Len(s)))
    ELSE EscapesInside(SubSeq(s, 3, Len(s)))

\* C15 as stated: for any range of length len, escape_string returns r <= len,
\* writes the decoded bytes at [0, r) with the write index never overtaking
\* the read index, sets every byte in [r, len) to zero and changes no byte
\* outside the range.
C15_AnyRange == \A k \in EscCalls : InPlaceResult(k)

\* C15 (amended): the same, for any range in which no escape sequence runs
\* past the end of the range.
C15_RangeWithWholeEscapes ==
    \A k \in EscCalls : EscapesInside(RangeBefore(k)) => InPlaceResult(k)

\* the range \n inside a\na was decoded: a, line feed, zero, a
C15_Witness ==
    /\ out # <<>>
    /\ out[1].op = "escape_string"
    /\ out[1].before = <<"a", BSLASH, "n", "a">>
    /\ out[1].off = 1 /\ out[1].len = 2 /\ out[1].ret = 1
    /\ input = <<"a", "\n", NUL, "a">>

\* the UTF-8 encoding of a 16-bit code point: one byte up to 0x7F, two bytes
\* 110xxxxx 10xxxxxx up to 0x7FF, otherwise three bytes 1110xxxx 10xxxxxx
\* 10xxxxxx, the x being the bits of cp from the highest down
Utf8(cp) ==
    LET x(hi, lo) == (cp % (2 ^ (hi + 1))) \div (2 ^ lo)   \* bits hi..lo of cp
    IN  IF cp <= 127 THEN <<Chr(cp)>>
        ELSE IF cp <= 2047 THEN <<Chr(192 + x(10, 6)), Chr(128 + x(5, 0))>>
        ELSE <<Chr(224 + x(15, 12)), Chr(128 + x(11, 6)), Chr(128 + x(5, 0))>>

\* the code point four hex digits denote
CodePoint(h) ==
    4096 * HexVal(h[1]) + 256 * HexVal(h[2]) + 16 * HexVal(h[3]) + HexVal(h[4])

\* s is backslash, 'u' and four hex digits
IsUnicodeEscape(s) ==
    Len(s) = 6 /\ s[1] = BSLASH /\ s[2] = "u" /\ \A i \in 3..6 : s[i] \in hex_chars

\* C16: a unicode escape (backslash, 'u', four hex digits) is decoded to the
\* UTF-8 encoding of the 16-bit code point: 1 byte for cp <= 0x7F, 2 bytes
\* for cp <= 0x7FF, otherwise 3 bytes; the escape for 00e9 yields the two
\* bytes 0xC3 0xA9.
C16_UnicodeEscapeToUtf8 ==
    /\ Utf8(233) = <<Chr(195), Chr(169)>>
    /\ \A k \in EscCalls :
          IsUnicodeEscape(RangeBefore(k)) =>
              LET cp == CodePoint(SubSeq(RangeBefore(k), 3, 6))
              IN  /\ out[k].ret = (IF cp <= 127 THEN 1 ELSE IF cp <= 2047 THEN 2 ELSE 3)
                  /\ SubSeq(input, out[k].off + 1, out[k].off + out[k].ret) = Utf8(cp)

\* the escape for 00e9 after a plain byte was decoded to 0xC3 0xA9
C16_Witness ==
    /\ out # <<>>
    /\ out[1].op = "escape_string"
    /\ out[1].before = <<"a", BSLASH, "u", "0", "0", "e", "9">>
    /\ out[1].off = 1 /\ out[1].len = 6 /\ out[1].ret = 2
    /\ input = <<"a", "xC3", "xA9", NUL, NUL, NUL, NUL>>

-----------------------------------------------------------------------------
(* String decoding through the parser (SpecStr) *)

\* the returned parse_string calls
StrCalls == {k \in 1..Len(out) : out[k].op = "parse_string"}

\* call k decodes in place the token that no earlier call has decoded
FirstDecode(k) ==
    /\ out[k].escape
    /\ \A m \in StrCalls : m < k => ~(out[m].escape /\ out[m].tok = out[k].tok)

\* call k is the next in-place decoding of the token after call j
NextDecode(j, k) ==
    /\ j < k /\ out[k].escape /\ out[k].tok = out[j].tok
    /\ \A m \in StrCalls : (j < m /\ m < k) => ~(out[m].escape /\ out[m].tok = out[j].tok)

\* C17: in-place decoding is not idempotent: for a String token whose span
\* contains an escape sequence, a second parse_string(token) call does not
\* return the same text as the first call.
C17_SecondDecodeDiffers ==
    \A j \in StrCalls : \A k \in StrCalls :
        (/\ FirstDecode(j) /\ NextDecode(j, k)
         /\ \E p \in 1..out[j].tok.len : out[j].before[out[j].tok.pos + p] = BSLASH)
            => out[k].text # out[j].text

\* the string "\\n": the first call returned backslash n, the second a
\* line feed and a zero byte
C17_Witness ==
    /\ Len(out) >= 2
    /\ out[1].op = "parse_string" /\ out[2].op = "parse_string"
    /\ out[1].before = <<QUOTE, BSLASH, BSLASH, "n", QUOTE>>
    /\ FirstDecode(1) /\ NextDecode(1, 2)
    /\ out[1].text = <<BSLASH, "n">>
    /\ out[2].text = <<"\n", NUL>>

-----------------------------------------------------------------------------
(* Diagnostics (SpecCtx) *)

\* the returned get_context calls
CtxCalls == {k \in 1..Len(out) : out[k].op = "get_context"}

\* the indices below offset that hold a newline
NewlinesBefore(offset) == {j \in 1..offset : input[j] = "\n"}

\* the offset of the first byte of the line offset lies in: the byte after
\* the last newline before offset
LineStart(offset) ==
    IF NewlinesBefore(offset) = {} THEN 0
    ELSE CHOOSE j \in NewlinesBefore(offset) : \A m \in NewlinesBefore(offset) : m <= j

\* the offset of the newline that ends that line, or the end of the document
LineEnd(offset) ==
    IF \E j \in (offset + 1)..Size : input[j] = "\n"
    THEN (CHOOSE j \in (offset + 1)..Size :
              input[j] = "\n" /\ \A m \in (offset + 1)..(j - 1) : input[m] # "\n") - 1
    ELSE Size

\* offset lies inside a line: it is at a byte other than a newline, or at
\* the end of the document
InsideLine(offset) == offset = Size \/ input[offset + 1] # "\n"

\* C18: for a document and an offset lying inside one of its lines,
\* get_context returns line_number = 1 + the number of newline bytes before
\* the offset, column = offset minus the index of the first byte of that
\* line, and line = the bytes of that line without its terminating newline.
C18_ContextOfOffset ==
    \A k \in CtxCalls :
        InsideLine(out[k].cursor) =>
            /\ out[k].context.line_number = 1 + Cardinality(NewlinesBefore(out[k].cursor))
            /\ out[k].context.column
                  = [wrapped |-> FALSE, val |-> out[k].cursor - LineStart(out[k].cursor)]
            /\ out[k].context.line
                  = SubSeq(input, LineStart(out[k].cursor) + 1, LineEnd(out[k].cursor))

\* offset 4 of a, newline, b, a, b: line 2, column 2, line bab
C18_Witness ==
    /\ input = <<"a", "\n", "b", "a", "b">>
    /\ out # <<>>
    /\ out[1].op = "get_context"
    /\ out[1].cursor = 4
    /\ out[1].context.line_number = 2
    /\ out[1].context.column = [wrapped |-> FALSE, val |-> 2]
    /\ out[1].context.line = <<"b", "a", "b">>

-----------------------------------------------------------------------------
(* Token spans (Spec) *)

\* the characters of a bareword: ASCII letters, digits, '.', '+' and '-'
BarewordChars ==
    Digits \cup {".", "+", "-"}
    \cup {"a", "b", "c", "d", "e", "f", "g", "h", "i", "j", "k", "l", "m",
          "n", "o", "p", "q", "r", "s", "t", "u", "v", "w", "x", "y", "z"}
    \cup {"A", "B", "C", "D", "E", "F", "G", "H", "I", "J", "K", "L", "M",
          "N", "O", "P", "Q", "R", "S", "T", "U", "V", "W", "X", "Y", "Z"}

\* [pos, pos + len) is a whole bareword: a run of bareword characters that
\* cannot be extended to either side
WholeBareword(pos, len) ==
    /\ len > 0
    /\ \A j \in pos..(pos + len - 1) : At(j) \in BarewordChars
    /\ pos > 0 => At(pos - 1) \notin BarewordChars
    /\ pos + len < Size => At(pos + len) \notin BarewordChars

RECURSIVE ClosingQuote(_)
\* the offset of the quote that closes a string literal whose content starts
\* at i: the first quote that is not part of an escape sequence
ClosingQuote(i) ==
    IF i >= Size THEN npos
    ELSE IF At(i) = QUOTE THEN i
    ELSE IF At(i) = BSLASH THEN ClosingQuote(i + 2)
    ELSE ClosingQuote(i + 1)

\* the bracket character of the structural tokens
Bracket == [Object |-> "{", Array |-> "[", EndObject |-> "}", EndArray |-> "]"]

\* C19: every non-Error token's span lies within the input buffer and is
\* exactly the text of its lexical unit: Object, Array, EndObject and
\* EndArray span the single bracket character, Null, Bool and number tokens
\* the whole bareword, a String token the bytes strictly between its opening
\* and closing quote, and get_location(token) is the offset of the span's
\* first byte.
C19_SpanIsLexicalUnit ==
    \A i \in 1..NCalls :
        Tok(i).type # "Error" =>
            /\ Tok(i).pos >= 0 /\ Tok(i).pos + Tok(i).len <= Size
            /\ get_location(Tok(i)) = Tok(i).pos
            /\ Tok(i).type \in DOMAIN Bracket =>
                  Tok(i).len = 1 /\ At(Tok(i).pos) = Bracket[Tok(i).type]
            /\ Tok(i).type \in {"Null", "Bool", "UInt", "Int", "Float"} =>
                  WholeBareword(Tok(i).pos, Tok(i).len)
            /\ Tok(i).type = "String" =>
                  /\ Tok(i).pos > 0
                  /\ At(Tok(i).pos - 1) = QUOTE
                  /\ ClosingQuote(Tok(i).pos) = Tok(i).pos + Tok(i).len

-----------------------------------------------------------------------------
(* parse_string and the buffer (SpecStr) *)

\* the bytes of the token's span in the buffer b
SpanIn(b, tok) == SubSeq(b, tok.pos + 1, tok.pos + tok.len)

\* the buffers a and b are equal outside the token's span
SameOutside(a, b, tok) ==
    /\ Len(a) = Len(b)
    /\ \A j \in 1..Len(a) : (j <= tok.pos \/ j > tok.pos + tok.len) => a[j] = b[j]

\* C20: parse_string(token, escape_in_place = false) returns exactly the
\* token's raw span and modifies no byte of the buffer; parse_string(token,
\* true) modifies only bytes inside the token's span and returns the first r
\* bytes of that span, r being the length escape_string returns.
C20_ParseStringBuffer ==
    \A k \in StrCalls :
        IF out[k].escape
        THEN /\ SameOutside(out[k].before, out[k].after, out[k].tok)
             /\ out[k].ret = escape_string(out[k].before, out[k].tok.pos,
                                           out[k].tok.len, TRUE).ret
             /\ out[k].ret <= out[k].tok.len
             /\ out[k].text = SubSeq(SpanIn(out[k].after, out[k].tok), 1, out[k].ret)
        ELSE /\ out[k].text = SpanIn(out[k].before, out[k].tok)
             /\ out[k].after = out[k].before

\* the string "a\n": a raw read returned a, backslash, n and left the
\* buffer alone, then a decoding read returned a, line feed
C20_Witness ==
    /\ Len(out) >= 2
    /\ out[1].op = "parse_string" /\ out[2].op = "parse_string"
    /\ out[1].before = <<QUOTE, "a", BSLASH, "n", QUOTE>>
    /\ ~out[1].escape /\ out[1].text = <<"a", BSLASH, "n">>
    /\ out[2].escape /\ out[2].text = <<"a", "\n">>
    /\ input = <<QUOTE, "a", "\n", NUL, QUOTE>>

-----------------------------------------------------------------------------
(* Containers (SpecNest) *)

\* the innermost container open after the first k tokens, "none" at top level
Innermost(k) ==
    LET open == Walk(k).open
    IN  IF open = <<>> THEN "none" ELSE open[Len(open)]

ScalarTypes == {"Null", "Bool", "UInt", "Int", "Float", "String"}

\* call k returned a member's value, or the token that closes one
CompletesMember(k) ==
    \/ calls[k].expect = "ObjectValue" /\ Tok(k).type \in ScalarTypes
    \/ Tok(k).type \in {"EndArray", "EndObject"} /\ Innermost(k) = "Object"

\* the offset of the first byte of a token's lexical unit (the opening quote
\* for a String)
UnitStart(tok) == IF tok.type = "String" THEN tok.pos - 1 ELSE tok.pos

-----------------------------------------------------------------------------
(* Barewords (SpecWord) *)

Letters == BarewordChars \ (Digits \cup {".", "+", "-"})

\* the characters of a number: digits, 'e', 'E', '.', '+', '-'
NumberChars == Digits \cup {"e", "E", ".", "+", "-"}

RECURSIVE BarewordEnd(_)
\* the offset after the maximal run of bareword characters that starts at i
BarewordEnd(i) ==
    IF i < Size /\ At(i) \in BarewordChars THEN BarewordEnd(i + 1) ELSE i

\* the bareword that starts at offset p
Bareword(p) == SubSeq(input, p + 1, BarewordEnd(p))

Keywords == {<<"n", "u", "l", "l">>, <<"t", "r", "u", "e">>, <<"f", "a", "l", "s", "e">>}

\* the offset of the first byte of the bareword at p that is no number
\* character, npos when there is none
FirstNonNumber(p) ==
    LET bad == {j \in p..(BarewordEnd(p) - 1) : At(j) \notin NumberChars}
    IN  IF bad = {} THEN npos ELSE CHOOSE j \in bad : \A m \in bad : j <= m

ExpectedValueKinds == "Expected string, array, object, null, boolean or number"

\* C22: in Value state, after skipping whitespace: end of input gives Error
\* "Expected value"; an empty bareword run gives Error "Value must not be
\* empty"; a bareword other than null, true, false that contains a character
\* outside digits, 'e', 'E', '.', '+', '-' gives Error "Expected string,
\* array, object, null, boolean or number" located at the first such
\* character; in every case error_location() is the cursor position.
C22_ValueErrors ==
    \A i \in 1..NCalls :
        calls[i].expect = "Value" =>
            LET p == JWs(calls[i].before)
            IN  /\ p >= Size => Tok(i) = ErrorToken(p, "Expected value")
                /\ (p < Size /\ At(p) \notin {QUOTE, "{", "["} /\ Bareword(p) = <<>>) =>
                      Tok(i) = ErrorToken(p, "Value must not be empty")
                /\ (/\ p < Size /\ Bareword(p) # <<>> /\ Bareword(p) \notin Keywords
                    /\ FirstNonNumber(p) # npos) =>
                      Tok(i) = ErrorToken(FirstNonNumber(p), ExpectedValueKinds)
                /\ Tok(i).type = "Error" => calls[i].cursor = Tok(i).pos

\* C23: the bareword run scanned for a value is the maximal run of ASCII
\* letters, digits, '.', '+' and '-'; a value that starts with an ASCII
\* letter and is not exactly null, true or false is reported as "Expected
\* string, array, object, null, boolean or number" and never as "Value must
\* not be empty".
C23_BarewordRun ==
    \A i \in 1..NCalls :
        calls[i].expect = "Value" =>
            LET p == JWs(calls[i].before)
            IN  /\ Tok(i).type \in {"Null", "Bool", "UInt", "Int", "Float"} =>
                      Tok(i).pos = p /\ Tok(i).pos + Tok(i).len = BarewordEnd(p)
                /\ (p < Size /\ At(p) \in Letters /\ Bareword(p) \notin Keywords) =>
                      /\ Tok(i).type = "Error"
                      /\ Tok(i).msg = ExpectedValueKinds

-----------------------------------------------------------------------------
(* Commas (SpecNest) *)

\* the offset after the whitespace at c and one comma when there is one
AfterComma(c) ==
    LET p == JWs(c)
    IN  IF p < Size /\ At(p) = "," THEN p + 1 ELSE p

-----------------------------------------------------------------------------
(* The expectation stack (SpecNest) *)

\* number of containers opened and not yet closed by the tokens returned
OpenContainers ==
    Cardinality({i \in 1..NCalls : Tok(i).type \in {"Array", "Object"}})
      - Cardinality({i \in 1..NCalls : Tok(i).type \in {"EndArray", "EndObject"}})

\* C25: a Parser starts with cursor 0 and the stack [Value]; the stack is
\* never longer than the number of open containers plus one, so it outgrows
\* the 512 reserved entries only when the nesting depth reaches 512.
C25_StackWithinNesting ==
    /\ calls = <<>> => cursor = 0 /\ stack = <<"Value">>
    /\ OpenContainers >= 0
    /\ Len(stack) <= OpenContainers + 1

\* two containers open and an error recorded on top of them
C25_Witness ==
    /\ OpenContainers = 2
    /\ Len(stack) = 3
    /\ stack[3] = "Error"

-----------------------------------------------------------------------------
(* The end of a string literal (Spec) *)

RECURSIVE BackslashesBefore(_, _)
\* number of consecutive backslashes that end just before offset i, none of
\* them below offset lo
BackslashesBefore(i, lo) ==
    IF i > lo /\ At(i - 1) = BSLASH THEN 1 + BackslashesBefore(i - 1, lo) ELSE 0

\* the first quote at or after s that an even number of backslashes precedes
LiteralEnd(s) ==
    LET ends == {j \in s..(Size - 1) :
                    At(j) = QUOTE /\ BackslashesBefore(j, s) % 2 = 0}
    IN  IF ends = {} THEN npos ELSE CHOOSE j \in ends : \A m \in ends : j <= m

\* C26: a string literal ends at the first quote preceded by an even number
\* of backslashes: a String token spans the bytes from the opening quote to
\* that quote and leaves the cursor just after it, and a well-formed literal
\* that ends in an escaped backslash yields such a String token.
C26_EvenBackslashesEnd ==
    \A i \in 1..NCalls :
        LET p == JWs(calls[i].before)
            e == LiteralEnd(p + 1)
        IN  (calls[i].expect = "Value" /\ p < Size /\ At(p) = QUOTE) =>
                /\ Tok(i).type = "String" =>
                      /\ Tok(i).pos = p + 1
                      /\ Tok(i).pos + Tok(i).len = e
                      /\ calls[i].cursor = e + 1
                /\ (e # npos /\ At(e - 1) = BSLASH /\ JStrBody(p + 1) = e + 1) =>
                      /\ Tok(i) = Token("String", p + 1, e - (p + 1))
                      /\ calls[i].cursor = e + 1

-----------------------------------------------------------------------------
(* Entering string_token (SpecNest) *)

\* where on_value, called at c0, enters string_token; npos when it does not
value_entry(c0) ==
    LET c == skip_whitespace(c0)
    IN  IF c < Size /\ At(c) = QUOTE THEN c ELSE npos

\* the cursor at the two assertions of string_token when the next call of
\* next() enters string_token; npos when that call does not enter it
string_token_entry ==
    IF stack = <<>> THEN npos
    ELSE LET expect == stack[Len(stack)]
             c == skip_whitespace(cursor)
         IN  CASE expect = "Error" -> npos
               [] expect = "Value" -> value_entry(cursor)
               [] expect = "ObjectKey" ->
                     IF c >= Size \/ At(c) = "}" THEN npos
                     ELSE skip_whitespace(IF At(c) = "," THEN c + 1 ELSE c)
               [] expect = "ObjectValue" ->
                     IF c >= Size \/ At(c) # ":" THEN npos ELSE value_entry(c + 1)
               [] expect = "ArrayValue" ->
                     IF c >= Size \/ At(c) = "]" THEN npos
                     ELSE value_entry(IF At(c) = "," THEN c + 1 ELSE c)

\* C27: whenever string_token is entered the cursor is inside the input and
\* on a double quote, so its two assertions hold in every reachable state; a
\* key that is no string, and the end of the input after a comma, are
\* reported through an Error token.
C27_StringTokenOnQuote ==
    /\ ~aborted
    /\ string_token_entry # npos =>
          string_token_entry < Size /\ At(string_token_entry) = QUOTE
    /\ \A i \in 1..NCalls :
          LET p == JWs(calls[i].before)
              q == JWs(AfterComma(calls[i].before))
          IN  (/\ calls[i].expect = "ObjectKey"
               /\ p < Size /\ At(p) # "}"
               /\ (q >= Size \/ At(q) # QUOTE)) => Tok(i).type = "Error"

-----------------------------------------------------------------------------
(* The validation loop of string_token (Spec) *)

\* the next call of next() enters string_token on a quote, finds a closing
\* quote, and its validation loop comes to assert(input_[cursor_] != '"')
\* with the cursor on a quote
quote_assert_fails ==
    LET e == string_token_entry
    IN  /\ e # npos /\ e < Size /\ At(e) = QUOTE
        /\ find_end(e + 1) # npos
        /\ validate(e + 1, e + 1, find_end(e + 1), <<>>, FALSE).abort

\* C28: the validation loop of string_token never meets a quote outside an
\* escape sequence, so its assertion holds in every reachable state, and
\* the loop ends with the cursor on the closing quote that was detected: a
\* String token lexed from an opening quote has no unescaped quote inside
\* its span and leaves the cursor just after the quote that follows the span.
C28_NoQuoteInValidation ==
    /\ ~quote_assert_fails
    /\ \A i \in 1..NCalls :
          (Tok(i).type = "String" /\ Tok(i).pos > 0 /\ At(Tok(i).pos - 1) = QUOTE) =>
              /\ At(Tok(i).pos + Tok(i).len) = QUOTE
              /\ calls[i].cursor = Tok(i).pos + Tok(i).len + 1
              /\ ClosingQuote(Tok(i).pos) >= Tok(i).pos + Tok(i).len

-----------------------------------------------------------------------------
(* Errors inside a string literal (SpecLit) *)

NoFault == [pos |-> npos, msg |-> ""]

\* the first byte at or after i that is no hex digit; Size when there is none
FirstNonHex(i) ==
    LET bad == {j \in i..(Size - 1) : At(j) \notin JsonHex}
    IN  IF bad = {} THEN Size ELSE CHOOSE j \in bad : \A m \in bad : j <= m

RECURSIVE FirstFault(_, _)
\* the first malformed escape sequence of the literal content [i, e), with
\* the location the error is to carry
FirstFault(i, e) ==
    IF i >= e THEN NoFault
    ELSE IF At(i) # BSLASH THEN FirstFault(i + 1, e)
    ELSE IF At(i + 1) \in JsonEscapes THEN FirstFault(i + 2, e)
    ELSE IF At(i + 1) # "u" THEN [pos |-> i + 1, msg |-> "Invalid escape sequence"]
    ELSE IF FirstNonHex(i + 2) >= i + 6 THEN FirstFault(i + 6, e)
    ELSE [pos |-> FirstNonHex(i + 2), msg |-> "Incomplete unicode escape sequence"]

\* C29: while a string literal is lexed, a backslash followed by a character
\* other than double quote, backslash, slash, b, f, n, r, t or u gives Error
\* "Invalid escape sequence" at that character; a backslash-u not followed by
\* four hex digits gives Error "Incomplete unicode escape sequence" at the
\* first character that is no hex digit; a literal without closing quote
\* gives Error "Unterminated string" at the opening quote.
C29_StringErrors ==
    \A i \in 1..NCalls :
        LET p == JWs(calls[i].before)
            e == LiteralEnd(p + 1)
        IN  (calls[i].expect = "Value" /\ p < Size /\ At(p) = QUOTE) =>
                /\ e = npos => Tok(i) = ErrorToken(p, "Unterminated string")
                /\ (e # npos /\ FirstFault(p + 1, e) # NoFault) =>
                      Tok(i) = ErrorToken(FirstFault(p + 1, e).pos,
                                          FirstFault(p + 1, e).msg)

-----------------------------------------------------------------------------
(* parse_int on UInt and Int tokens (SpecNum) *)

\* the bytes of the span of the token a decode operation was called with
SpanOf(k) == SubSeq(input, out[k].tok.pos + 1, out[k].tok.pos + out[k].tok.len)

\* C30: for every UInt or Int token whose span is an integer literal,
\* parse_int returns the value the literal denotes; in particular every
\* UInt token that parse_uint decodes is decoded by parse_int too, to the
\* same value.
C30_ParseIntDecodes ==
    \A k \in 1..Len(out) :
        out[k].op = "parse_int" =>
            LET s == SpanOf(k)
            IN  /\ (out[k].tok.type = "UInt" /\ AllDigits(s)) =>
                      /\ out[k].res.ok
                      /\ ~out[k].res.neg
                      /\ out[k].res.mag = StripZeros(s)
                /\ (out[k].tok.type = "Int" /\ s[1] = "-" /\ AllDigits(Tail(s))) =>
                      /\ out[k].res.ok
                      /\ out[k].res.mag = StripZeros(Tail(s))
                      /\ out[k].res.neg = (StripZeros(Tail(s)) # <<"0">>)
                /\ \A j \in 1..Len(out) :
                      (/\ out[j].op = "parse_uint" /\ out[j].tok = out[k].tok
                       /\ out[j].res.ok) =>
                          out[k].res.ok /\ out[k].res.mag = out[j].res.mag

-----------------------------------------------------------------------------
(* Decoding a String token (SpecStr) *)

RECURSIVE WellEscaped(_, _, _)
\* in the bytes [i, e) of buffer b every backslash is followed, before e, by
\* a recognised escape letter, and a backslash-u by four hex digits
WellEscaped(b, i, e) ==
    IF i >= e THEN TRUE
    ELSE IF b[i + 1] # BSLASH THEN WellEscaped(b, i + 1, e)
    ELSE IF i + 1 >= e THEN FALSE
    ELSE IF b[i + 2] \in JsonEscapes THEN WellEscaped(b, i + 2, e)
    ELSE IF b[i + 2] # "u" THEN FALSE
    ELSE /\ i + 5 < e
         /\ \A k \in 2..5 : b[i + k + 1] \in JsonHex
         /\ WellEscaped(b, i + 6, e)

\* the in-place decodes of a token whose span no earlier decode has touched
FirstDecodes ==
    {k \in StrCalls :
        /\ out[k].escape
        /\ \A j \in 1..(k - 1) : out[j].op = "parse_string" => ~out[j].escape}

\* C31: for every String token next() returned, the in-place decode done by
\* parse_string meets all assertions of escape_string: in the span no
\* backslash is the last byte, every backslash-u is followed inside the span
\* by four hex digits, and every backslash is followed by a recognised
\* escape letter.
C31_DecodeMeetsAssertions ==
    \A k \in FirstDecodes :
        /\ ~escape_string(out[k].before, out[k].tok.pos, out[k].tok.len, FALSE).abort
        /\ WellEscaped(out[k].before, out[k].tok.pos, out[k].tok.pos + out[k].tok.len)

\* the literal of an escaped backslash and a unicode escape, decoded in place
C31_Witness ==
    \E k \in FirstDecodes :
        /\ out[k].before = <<QUOTE, BSLASH, BSLASH, BSLASH, "u", "0", "0", "e", "9", QUOTE>>
        /\ out[k].tok = Token("String", 1, 8)
        /\ out[k].ret = 3

-----------------------------------------------------------------------------
(* The column of get_context (SpecCtx) *)

\* C32: for every document and every offset from 0 to the document length,
\* offsets at a newline byte included, get_context returns a column with
\* 0 <= column <= length of the returned line: the subtraction
\* offset - line_start never underflows.
C32_ColumnWithinLine ==
    \A k \in CtxCalls :
        /\ ~out[k].context.column.wrapped
        /\ out[k].context.column.val <= Len(out[k].context.line)

-----------------------------------------------------------------------------
(* Decoding and later tokens (SpecMix) *)

Expectations == {"Value", "ObjectKey", "ObjectValue", "ArrayValue", "Error"}

\* what next() returns and leaves behind from every cursor position at or
\* after the present one, for every expectation, in both builds
LaterTokens ==
    [c \in cursor..Size |->
        [expect \in Expectations |->
            [nd \in BOOLEAN |-> next_at(expect, c, <<>>, nd)]]]

\* C33: decoding tokens that were returned does not influence tokenization:
\* a parse_string (in place or not), parse_int, parse_uint, parse_float or
\* parse_bool call leaves the cursor and the expectation stack as they are,
\* and the tokens, spans and error locations that next() returns from the
\* cursor on are the same after the call as before it.
C33_DecodeLeavesTokens ==
    [][out' # out =>
          /\ cursor' = cursor
          /\ stack' = stack
          /\ calls' = calls
          /\ input' = input \/ (Len(input') = Len(input) /\ LaterTokens' = LaterTokens)]_vars

\* an in-place decode has changed the buffer while the array is still open
C33_Witness ==
    /\ \E k \in StrCalls : out[k].escape /\ out[k].before # out[k].after
    /\ cursor < Size
    /\ stack # <<>> /\ stack[Len(stack)] = "ArrayValue"

-----------------------------------------------------------------------------
(* Progress of the cursor (Spec) *)

\* the calls that returned a token other than Eof and Error
Productive == {i \in 1..NCalls : ~IsTerminal(Tok(i))}

\* C34: every next() call that returns a token other than Eof or Error
\* advances the cursor by at least one byte, so an input of n bytes yields
\* at most n such tokens and more than n calls include one that returned
\* Eof or Error.
C34_TokensConsumeInput ==
    /\ \A i \in Productive : calls[i].cursor >= calls[i].before + 1
    /\ Cardinality(Productive) <= Size
    /\ NCalls > Size => \E i \in 1..NCalls : IsTerminal(Tok(i))

\* [[]] read to the end: four tokens of one byte each, then Eof
C34_Witness ==
    /\ input = <<"[", "[", "]", "]">>
    /\ NCalls = 5
    /\ Productive = 1..4
    /\ \A i \in 1..4 : calls[i].cursor = i
    /\ Tok(5).type = "Eof"

\* C35: after any sequence of next() calls the cursor is within
\* 0 .. input length, and it never decreases from the return of one call to
\* the return of the next.
C35_CursorMonotone ==
    /\ cursor >= 0 /\ cursor <= Size
    /\ \A i \in 1..NCalls :
          /\ calls[i].cursor >= 0 /\ calls[i].cursor <= Size
          /\ calls[i].cursor >= calls[i].before
          /\ calls[i].before = (IF i = 1 THEN 0 ELSE calls[i - 1].cursor)
    /\ NCalls > 0 => cursor = calls[NCalls].cursor

\* an unterminated string after a blank inside an array: the cursor is put
\* back on the opening quote, which is not before the previous return
C35_Witness ==
    /\ input = <<"[", " ", QUOTE, "1">>
    /\ NCalls = 2
    /\ calls[1].cursor = 1
    /\ Tok(2) = ErrorToken(2, "Unterminated string")
    /\ cursor = 2

-----------------------------------------------------------------------------
(* Elements without a comma (SpecNest) *)

\* a value's first token can be lexed at offset p: a bracket, a well-formed
\* string literal, null, true, false, or a well-formed number
ElementAt(p) ==
    /\ p < Size
    /\ \/ At(p) \in {"[", "{"}
       \/ At(p) = QUOTE /\ JStrBody(p + 1) # npos
       \/ Bareword(p) \in Keywords
       \/ BarewordEnd(p) > p /\ JNumber(p) = BarewordEnd(p)

TokenKinds == [i \in 1..NCalls |-> Tok(i).type]

\* C36: commas between array elements and between object members are not
\* required: when the byte after the whitespace is neither the closing
\* bracket nor ',', the element or key that starts there is lexed directly
\* and no Error is returned for the missing comma; [1 2] yields the same
\* token kinds as [1,2].
C36_CommaNotRequired ==
    /\ \A i \in 1..NCalls :
          LET p == JWs(calls[i].before)
          IN  /\ (calls[i].expect = "ArrayValue" /\ ElementAt(p)) =>
                    Tok(i).type # "Error" /\ UnitStart(Tok(i)) = p
              /\ (/\ calls[i].expect = "ObjectKey"
                  /\ p < Size /\ At(p) = QUOTE /\ JStrBody(p + 1) # npos) =>
                    Tok(i).type = "String" /\ UnitStart(Tok(i)) = p
    /\ (input \in SeparatorDocs /\ NCalls = 4) =>
          TokenKinds = <<"Array", "UInt", "UInt", "EndArray">>

\* [1 2] read to its closing bracket
C36_Witness ==
    /\ input = <<"[", "1", " ", "2", "]">>
    /\ NCalls = 4
    /\ Tok(2) = Token("UInt", 1, 1) /\ Tok(3) = Token("UInt", 3, 1)
    /\ Tok(4) = Token("EndArray", 4, 1)

-----------------------------------------------------------------------------
(* Whitespace (SpecWs) *)

RECURSIVE AfterBlanks(_)
\* the offset of the first byte at or after i that is neither a space, nor
\* a horizontal tab, nor a line feed
AfterBlanks(i) ==
    IF i < Size /\ At(i) \in {" ", "\t", "\n"} THEN AfterBlanks(i + 1) ELSE i

\* C37: skip_whitespace skips exactly space, horizontal tab and line feed:
\* the token or the error of a call that expects a value is located at the
\* first byte that is none of the three; a carriage return is never
\* skipped, and in front of a value it makes next() return Error "Value
\* must not be empty" located at the carriage return.
C37_CarriageReturnNotSkipped ==
    /\ skip_whitespace(cursor) = AfterBlanks(cursor)
    /\ \A i \in 1..NCalls :
          LET p == AfterBlanks(calls[i].before)
          IN  calls[i].expect \in {"Value", "ArrayValue"} =>
                /\ (p < Size /\ At(p) # ",") => Tok(i).pos = p
                /\ (p < Size /\ At(p) = "\r") =>
                      Tok(i) = ErrorToken(p, "Value must not be empty")

\* a line feed, a carriage return and 1: the error is at the carriage return
C37_Witness ==
    /\ input = <<"\n", "\r", "1">>
    /\ NCalls = 1
    /\ Tok(1) = ErrorToken(1, "Value must not be empty")

-----------------------------------------------------------------------------
(* structread into a struct with registered fields (SpecScene) *)

\* the from_json calls made so far
FromJsonCalls == {k \in 1..Len(out) : out[k].op = "from_json"}

\* the fields of Scene that are neither of a std::optional type nor listed
\* as optional
RequiredFields ==
    {Scene.fields[k].name : k \in {j \in 1..Len(Scene.fields) :
        /\ Scene.fields[j].type.kind # "optional"
        /\ Scene.fields[j].name \notin Scene.optional_fields}}

\* the document has a member with the key name
HasMember(name) ==
    LET member == <<QUOTE>> \o name \o <<QUOTE, ":">>
    IN  \E i \in 1..(Size - Len(member) + 1) :
            SubSeq(input, i, i + Len(member) - 1) = member

\* the required fields the document has no member for
LackingFields == {name \in RequiredFields : ~HasMember(name)}

\* C38: from_json into a struct with registered fields returns false with a
\* "Missing key" error located at the opening brace of the object whenever
\* the JSON object lacks a field that is neither optional by type nor listed
\* as optional, also when the object has no members at all; it returns true
\* only if every required field is present.
C38_MissingKeyReported ==
    \A k \in FromJsonCalls :
        (out[k].type.kind = "struct" /\ ValidJSON) =>
            /\ LackingFields # {} =>
                  /\ ~out[k].ret
                  /\ out[k].error # <<>>
                  /\ out[k].error[1].location = 0
                  /\ out[k].error[1].message.text = ": Missing key '"
                  /\ out[k].error[1].message.arg \in LackingFields
            /\ out[k].ret => LackingFields = {}

-----------------------------------------------------------------------------
(* structread into a std::array (SpecFix) *)

\* the document is a JSON array without an array inside
FlatArray ==
    /\ ValidJSON
    /\ At(0) = "["
    /\ \A i \in 1..(Size - 1) : At(i) # "["

\* the number of elements of such an array
ElementCount ==
    IF \A i \in 1..(Size - 2) : At(i) = " " THEN 0
    ELSE Cardinality({i \in 1..(Size - 2) : At(i) = ","}) + 1

\* C39: from_json into a std::array<T, N> returns true only if the JSON
\* array has exactly N elements, and then the EndArray token of the array
\* is the last token it has read from the parser; for an array with fewer
\* or with more than N elements it returns false and sets an error.
C39_ArrayOfExactlyN ==
    \A k \in FromJsonCalls :
        (out[k].type.kind = "array" /\ FlatArray) =>
            /\ out[k].ret =>
                  /\ ElementCount = out[k].type.N
                  /\ calls[out[k].consumed].tok.type = "EndArray"
            /\ ElementCount # out[k].type.N =>
                  ~out[k].ret /\ out[k].error # <<>>

-----------------------------------------------------------------------------
(* The DOM builder (SpecDom) *)

\* the to_dom calls made so far
ToDomCalls == {k \in 1..Len(out) : out[k].op = "to_dom"}

\* C40: to_dom throws for every document on which the tokenizer returns an
\* Error token: no call that has read an Error token from the parser, at the
\* top or inside an array or an object, returns a DOM value.
C40_ErrorMakesToDomThrow ==
    \A k \in ToDomCalls :
        (\E i \in 1..out[k].consumed : calls[i].tok.type = "Error") => out[k].throws

=============================================================================
